---- MODULE Spec2Model ----
(***************************************************************************)
(* Model of the chunking / retrieval / citation core of the RAG backend    *)
(* (backend/src/services/chunking.py, selected_text.py, agent.py,          *)
(* vector_store.py and the two chat routes).                               *)
(*                                                                         *)
(* Text is modelled by its whitespace-delimited words.  A section content  *)
(* is a sequence of words 1..n; tok[i] is the number of tokens the         *)
(* tokenizer yields for word i.  The tokenizer (BERT WordPiece) tokenizes  *)
(* each whitespace-delimited word on its own, so the token count of a      *)
(* text is the sum of the token counts of its words.  A sentence           *)
(* segmentation is a sequence of sentences, each a sequence of consecutive *)
(* words.  ' '.join(xs) is the concatenation of the word sequences and     *)
(* str.split() yields the words of a sentence.                             *)
(***************************************************************************)
EXTENDS Integers, Sequences, FiniteSets, TLC

(***************************************************************************)
(* Program constants                                                       *)
(***************************************************************************)
MAX_CHUNK_TOKENS == 512
MIN_CHUNK_TOKENS == 50

(***************************************************************************)
(* Bounds of the model                                                     *)
(***************************************************************************)
MaxWords == 4
MaxLines == 5
MaxDepth == 4
MaxSelectedWords == 2
MaxMarkers == 2
MaxIngests == 1
MaxCandidates == 3
MaxContext == 4
MaxPieces == 2
MaxUpserted == 3
MaxEmbeds == 3
MaxRuns == 2
MaxCreates == 2
\* token counts a single whitespace-delimited word may have; 513 is a word
\* without inner whitespace that the tokenizer cuts into more than
\* MAX_CHUNK_TOKENS pieces (a long run of punctuation or of CJK characters)
TokenSizes == {30, 300, 490, 513}

VARIABLES
    \* ---- chunk_section / split_text_by_sentences ----
    tok,            \* tok[i]: token count of word i of section.content
    sents,          \* sentence segmentation of section.content
    cpc,            \* position in chunk_section
    si,             \* sentences consumed by the loop of split_text_by_sentences
    chunk_texts,    \* `chunks` of split_text_by_sentences
    current_chunk,  \* `current_chunk` (list of sentences)
    current_tokens, \* `current_tokens`
    mi,             \* idx of the enumerate loop of chunk_section
    chunks,         \* `chunks` of chunk_section (the returned list)
    uuid_next,      \* number of uuid4 values drawn so far (process-wide)
    \* ---- parse_markdown_sections ----
    lines,            \* markdown_text.split('\n'), each line by its kind
    chapter,          \* `chapter`
    ppc,              \* position in parse_markdown_sections
    li,               \* lines consumed by `for line in lines`
    current_section,  \* `current_section`: <<>> for None, else <<section>>
    current_content,  \* `current_content`
    section_counters, \* `section_counters`
    sections,         \* `sections` (the returned list)
    \* ---- persistent index, ingestion and the two chat routes ----
    collection,  \* points of the Qdrant collection
    qdrant_log,  \* operations invoked on the Qdrant client so far, and by whom
    ingests,     \* runs of the ingestion script so far
    rpc,         \* rpc[q]: position of request q in its route handler
    mode,        \* mode[q]: "global" (chat) or "selected-text" (chat_selected)
    qvec,        \* query_embedding of request q
    store,       \* ephemeral_store.chunks of request q (local to answer_query)
    built,       \* history: the ephemeral chunks request q created
    settings,    \* get_settings()
    context,     \* context_chunks handed to the agent by request q
    response,    \* what request q returned to its caller
    steps,       \* history: the pipeline steps request q invoked, in order
    nhits,       \* history: len(search_results) of request q, -1 before
    exc,         \* the exception request q's handler caught, None if none
    \* ---- a single call of the ephemeral search or of the citation binder ----
    fpc,         \* "idle", "called" or "returned"
    fargs,       \* the arguments of the call
    fresult      \* what the call returned

chunkVars == <<tok, sents, cpc, si, chunk_texts, current_chunk,
               current_tokens, mi, chunks>>

queryVars == <<collection, qdrant_log, ingests, rpc, mode, qvec, store,
               built, settings, context, response, steps, nhits, exc>>

parseVars == <<lines, chapter, ppc, li, current_section, current_content,
               section_counters, sections>>

callVars == <<fpc, fargs, fresult>>

vars == <<chunkVars, uuid_next, parseVars, queryVars, callVars>>

\* the chunker is not running
ChunkIdle ==
    /\ tok = <<>>
    /\ sents = <<>>
    /\ cpc = "idle"
    /\ si = 0
    /\ chunk_texts = <<>>
    /\ current_chunk = <<>>
    /\ current_tokens = 0
    /\ mi = 0
    /\ chunks = <<>>

\* the parser is not running
ParseIdle ==
    /\ lines = <<>>
    /\ chapter = 0
    /\ ppc = "idle"
    /\ li = 0
    /\ current_section = <<>>
    /\ current_content = <<>>
    /\ section_counters = [k \in 1..6 |-> 0]
    /\ sections = <<>>

\* the two request handlers of the model
Requests == {1, 2}

\* no exception was caught
NoException == [at |-> "none", text |-> ""]

NoResponse ==
    [outcome |-> "none", status |-> 0, answer |-> "", citations |-> <<>>,
     error |-> "", message |-> "", by |-> "none"]

\* no request has arrived and nothing was ingested
QueryIdle ==
    /\ collection = {}
    /\ qdrant_log = {}
    /\ ingests = 0
    /\ rpc = [q \in Requests |-> "unused"]
    /\ mode = [q \in Requests |-> "none"]
    /\ qvec = [q \in Requests |-> <<0, 0>>]
    /\ store = [q \in Requests |-> <<>>]
    /\ built = [q \in Requests |-> <<>>]
    /\ settings = [retrieval_top_k |-> 5, debug |-> FALSE,
                   environment |-> "development"]
    /\ context = [q \in Requests |-> <<>>]
    /\ response = [q \in Requests |-> NoResponse]
    /\ steps = [q \in Requests |-> <<>>]
    /\ nhits = [q \in Requests |-> -1]
    /\ exc = [q \in Requests |-> NoException]

\* no function is called on its own
CallIdle ==
    /\ fpc = "idle"
    /\ fargs = <<>>
    /\ fresult = <<>>

\* a step of the chunker leaves the rest of the system alone
OnlyChunkerRuns == UNCHANGED <<parseVars, queryVars, callVars>>

\* a step of the parser leaves the rest of the system alone
OnlyParserRuns == UNCHANGED <<chunkVars, uuid_next, queryVars, callVars>>

\* a step of ingestion or of a request leaves chunker and parser alone
OnlyServiceRuns == UNCHANGED <<chunkVars, parseVars, callVars>>

\* a call of a function on its own leaves the rest of the system alone
OnlyCallRuns == UNCHANGED <<chunkVars, uuid_next, parseVars, queryVars>>

(***************************************************************************)
(* Strings                                                                 *)
(***************************************************************************)
startswith(s, prefix) ==
    /\ Len(s) >= Len(prefix)
    /\ SubSeq(s, 1, Len(prefix)) = prefix

HexChars == "0123456789abcdef"

HexDigit(d) == SubSeq(HexChars, d + 1, d + 1)

\* str.lower, one character at a time
UpperCase == "ABCDEFGHIJKLMNOPQRSTUVWXYZ"
LowerCase == "abcdefghijklmnopqrstuvwxyz"

LowerChar(c) ==
    IF \E i \in 1..Len(UpperCase) : SubSeq(UpperCase, i, i) = c
    THEN LET i == CHOOSE j \in 1..Len(UpperCase) :
                      SubSeq(UpperCase, j, j) = c
         IN  SubSeq(LowerCase, i, i)
    ELSE c

RECURSIVE LowerFrom(_, _)
LowerFrom(word, i) ==
    IF i > Len(word) THEN ""
    ELSE LowerChar(SubSeq(word, i, i)) \o LowerFrom(word, i + 1)

Lower(word) == LowerFrom(word, 1)

\* `sub in s` on strings
Contains(s, sub) ==
    \E i \in 1..(Len(s) - Len(sub) + 1) :
       SubSeq(s, i, i + Len(sub) - 1) = sub

RECURSIVE HexStr(_, _)
\* n in hexadecimal, zero-padded to `width` digits
HexStr(n, width) ==
    IF width = 0 THEN ""
    ELSE HexStr(n \div 16, width - 1) \o HexDigit(n % 16)

\* str(uuid.uuid4()): 8-4-4-4-12 lower-case hexadecimal digits; the n-th
\* value drawn differs from all values drawn before
Uuid4Str(n) == HexStr(n, 8) \o "-0000-4000-8000-000000000000"

(***************************************************************************)
(* Token counting and joining                                              *)
(***************************************************************************)
RECURSIVE SumTokens(_, _)
SumTokens(text, tk) ==
    IF text = <<>> THEN 0
    ELSE tk[Head(text)] + SumTokens(Tail(text), tk)

\* count_tokens(text): len(tokenizer.encode(text))
count_tokens(text, tk) == SumTokens(text, tk)

RECURSIVE Join(_)
\* ' '.join(parts)
Join(parts) ==
    IF parts = <<>> THEN <<>>
    ELSE Head(parts) \o Join(Tail(parts))

(***************************************************************************)
(* split_text_by_sentences                                                 *)
(***************************************************************************)
\* body of `for word in words`
WordStep(st, word, tk, max_tokens) ==
    LET word_tokens == count_tokens(<<word>>, tk) IN
    IF st.temp_tokens + word_tokens > max_tokens
    THEN [chunks      |-> IF st.temp_chunk # <<>>
                          THEN Append(st.chunks, st.temp_chunk)
                          ELSE st.chunks,
          temp_chunk  |-> <<word>>,
          temp_tokens |-> word_tokens]
    ELSE [chunks      |-> st.chunks,
          temp_chunk  |-> Append(st.temp_chunk, word),
          temp_tokens |-> st.temp_tokens + word_tokens]

RECURSIVE WordLoop(_, _, _, _)
WordLoop(st, words, tk, max_tokens) ==
    IF words = <<>> THEN st
    ELSE WordLoop(WordStep(st, Head(words), tk, max_tokens),
                  Tail(words), tk, max_tokens)

\* variant of SplitLongSentence that forgets the words left in temp_chunk
SplitLongSentence_NoTail(chunks0, sentence, tk, max_tokens) ==
    WordLoop([chunks |-> chunks0, temp_chunk |-> <<>>, temp_tokens |-> 0],
             sentence, tk, max_tokens).chunks

\* "Split long sentence by words": the word loop and the flush after it
SplitLongSentence(chunks0, sentence, tk, max_tokens) ==
    LET st == WordLoop([chunks |-> chunks0, temp_chunk |-> <<>>,
                        temp_tokens |-> 0], sentence, tk, max_tokens)
    IN  IF st.temp_chunk # <<>> THEN Append(st.chunks, st.temp_chunk)
        ELSE st.chunks

\* variant of SentenceStep that resets the buffer before an over-long
\* sentence without appending it to chunks
SentenceStep_DropBuffer(st, sentence, tk, max_tokens) ==
    LET sentence_tokens == count_tokens(sentence, tk) IN
    IF sentence_tokens > max_tokens
    THEN [chunks         |-> SplitLongSentence(st.chunks, sentence, tk,
                                               max_tokens),
          current_chunk  |-> <<>>,
          current_tokens |-> 0]
    ELSE IF st.current_tokens + sentence_tokens > max_tokens
    THEN [chunks         |-> IF st.current_chunk # <<>>
                             THEN Append(st.chunks, Join(st.current_chunk))
                             ELSE st.chunks,
          current_chunk  |-> <<sentence>>,
          current_tokens |-> sentence_tokens]
    ELSE [chunks         |-> st.chunks,
          current_chunk  |-> Append(st.current_chunk, sentence),
          current_tokens |-> st.current_tokens + sentence_tokens]

\* body of `for sentence in sentences`
SentenceStep(st, sentence, tk, max_tokens) ==
    LET sentence_tokens == count_tokens(sentence, tk) IN
    IF sentence_tokens > max_tokens
    THEN LET flushed == IF st.current_chunk # <<>>
                        THEN Append(st.chunks, Join(st.current_chunk))
                        ELSE st.chunks
         IN  [chunks         |-> SplitLongSentence(flushed, sentence, tk,
                                                   max_tokens),
              current_chunk  |-> IF st.current_chunk # <<>> THEN <<>>
                                 ELSE st.current_chunk,
              current_tokens |-> IF st.current_chunk # <<>> THEN 0
                                 ELSE st.current_tokens]
    ELSE IF st.current_tokens + sentence_tokens > max_tokens
    THEN [chunks         |-> IF st.current_chunk # <<>>
                             THEN Append(st.chunks, Join(st.current_chunk))
                             ELSE st.chunks,
          current_chunk  |-> <<sentence>>,
          current_tokens |-> sentence_tokens]
    ELSE [chunks         |-> st.chunks,
          current_chunk  |-> Append(st.current_chunk, sentence),
          current_tokens |-> st.current_tokens + sentence_tokens]

\* "Add final chunk"
FinalFlush(st) ==
    IF st.current_chunk # <<>>
    THEN Append(st.chunks, Join(st.current_chunk))
    ELSE st.chunks

RECURSIVE SentenceLoop(_, _, _, _)
SentenceLoop(st, sentences, tk, max_tokens) ==
    IF sentences = <<>> THEN st
    ELSE SentenceLoop(SentenceStep(st, Head(sentences), tk, max_tokens),
                      Tail(sentences), tk, max_tokens)

split_text_by_sentences(sentences, tk, max_tokens) ==
    FinalFlush(SentenceLoop([chunks |-> <<>>, current_chunk |-> <<>>,
                             current_tokens |-> 0],
                            sentences, tk, max_tokens))

(***************************************************************************)
(* chunk_section                                                           *)
(***************************************************************************)
ChunkMetadata(id, text, token_count, idx) ==
    [chunk_id |-> id, text |-> text, token_count |-> token_count,
     chunk_index |-> idx]

\* variant of MergeStep that never merges
MergeStep_NoMerge(st, idx, chunk_text, tk) ==
    [chunks    |-> Append(st.chunks,
                          ChunkMetadata(Uuid4Str(st.uuid_next), chunk_text,
                                        count_tokens(chunk_text, tk), idx)),
     uuid_next |-> st.uuid_next + 1]

\* variant of MergeStep that merges an undersized chunk whatever the size of
\* the merged text
MergeStep_IgnoresCeiling(st, idx, chunk_text, tk) ==
    LET token_count   == count_tokens(chunk_text, tk)
        n             == Len(st.chunks)
        prev_chunk    == st.chunks[n]
        merged_text   == prev_chunk.text \o chunk_text
        merged_tokens == count_tokens(merged_text, tk)
    IN  IF /\ token_count < MIN_CHUNK_TOKENS
           /\ idx > 0
           /\ st.chunks # <<>>
        THEN [chunks    |-> [st.chunks EXCEPT
                                ![n].text = merged_text,
                                ![n].token_count = merged_tokens],
              uuid_next |-> st.uuid_next]
        ELSE [chunks    |-> Append(st.chunks,
                                   ChunkMetadata(Uuid4Str(st.uuid_next),
                                                 chunk_text, token_count,
                                                 idx)),
              uuid_next |-> st.uuid_next + 1]

\* body of `for idx, chunk_text in enumerate(chunk_texts)`;
\* st = [chunks, uuid_next]
MergeStep(st, idx, chunk_text, tk) ==
    LET token_count   == count_tokens(chunk_text, tk)
        n             == Len(st.chunks)
        prev_chunk    == st.chunks[n]
        merged_text   == prev_chunk.text \o chunk_text
        merged_tokens == count_tokens(merged_text, tk)
    IN  IF /\ token_count < MIN_CHUNK_TOKENS
           /\ idx > 0
           /\ st.chunks # <<>>
           /\ merged_tokens <= MAX_CHUNK_TOKENS
        THEN [chunks    |-> [st.chunks EXCEPT
                                ![n].text = merged_text,
                                ![n].token_count = merged_tokens],
              uuid_next |-> st.uuid_next]
        ELSE [chunks    |-> Append(st.chunks,
                                   ChunkMetadata(Uuid4Str(st.uuid_next),
                                                 chunk_text, token_count,
                                                 idx)),
              uuid_next |-> st.uuid_next + 1]

(***************************************************************************)
(* Inputs of the chunker                                                   *)
(***************************************************************************)
RECURSIVE SeqsUpTo(_, _)
\* the sequences over S of length 0..n
SeqsUpTo(S, n) ==
    IF n = 0 THEN {<<>>}
    ELSE LET shorter == SeqsUpTo(S, n - 1)
         IN  shorter \cup {Append(s, x) : s \in {t \in shorter : Len(t) = n - 1},
                                          x \in S}

RECURSIVE Segment(_, _, _)
\* the sentences of words from..n when a sentence ends after each word of cuts
Segment(from, n, cuts) ==
    IF from > n THEN <<>>
    ELSE LET ends == {e \in from..n : e \in cuts \/ e = n}
             e    == CHOOSE x \in ends : \A y \in ends : x <= y
         IN  <<[i \in 1..(e - from + 1) |-> from + i - 1]>>
             \o Segment(e + 1, n, cuts)

Segmentations(n) == {Segment(1, n, cuts) : cuts \in SUBSET (1..(n - 1))}

ContentWords(tk) == [i \in 1..Len(tk) |-> i]

(***************************************************************************)
(* chunk_section as a state machine: one action per loop iteration         *)
(***************************************************************************)
InitChunk ==
    /\ tok \in SeqsUpTo(TokenSizes, MaxWords) \ {<<>>}
    /\ sents \in Segmentations(Len(tok))
    /\ cpc = "start"
    /\ si = 0
    /\ chunk_texts = <<>>
    /\ current_chunk = <<>>
    /\ current_tokens = 0
    /\ mi = 0
    /\ chunks = <<>>
    /\ uuid_next = 0
    /\ ParseIdle
    /\ QueryIdle
    /\ CallIdle

\* section fits in one chunk: returned intact
ChunkFits ==
    /\ cpc = "start"
    /\ count_tokens(ContentWords(tok), tok) <= MAX_CHUNK_TOKENS
    /\ chunks' = <<ChunkMetadata(Uuid4Str(uuid_next), ContentWords(tok),
                                 count_tokens(ContentWords(tok), tok), 0)>>
    /\ uuid_next' = uuid_next + 1
    /\ cpc' = "done"
    /\ UNCHANGED <<tok, sents, si, chunk_texts, current_chunk,
                   current_tokens, mi>>
    /\ OnlyChunkerRuns

\* section too large: enter split_text_by_sentences
ChunkTooLarge ==
    /\ cpc = "start"
    /\ count_tokens(ContentWords(tok), tok) > MAX_CHUNK_TOKENS
    /\ cpc' = "split"
    /\ UNCHANGED <<tok, sents, si, chunk_texts, current_chunk,
                   current_tokens, mi, chunks, uuid_next>>
    /\ OnlyChunkerRuns

SplitSentence ==
    /\ cpc = "split"
    /\ si < Len(sents)
    /\ LET st == SentenceStep([chunks |-> chunk_texts,
                               current_chunk |-> current_chunk,
                               current_tokens |-> current_tokens],
                              sents[si + 1], tok, MAX_CHUNK_TOKENS)
       IN  /\ chunk_texts' = st.chunks
           /\ current_chunk' = st.current_chunk
           /\ current_tokens' = st.current_tokens
    /\ si' = si + 1
    /\ UNCHANGED <<tok, sents, cpc, mi, chunks, uuid_next>>
    /\ OnlyChunkerRuns

SplitReturn ==
    /\ cpc = "split"
    /\ si = Len(sents)
    /\ chunk_texts' = FinalFlush([chunks |-> chunk_texts,
                                  current_chunk |-> current_chunk,
                                  current_tokens |-> current_tokens])
    /\ cpc' = "merge"
    /\ UNCHANGED <<tok, sents, si, current_chunk, current_tokens, mi,
                   chunks, uuid_next>>
    /\ OnlyChunkerRuns

MergeChunk ==
    /\ cpc = "merge"
    /\ mi < Len(chunk_texts)
    /\ LET st == MergeStep([chunks |-> chunks, uuid_next |-> uuid_next],
                           mi, chunk_texts[mi + 1], tok)
       IN  /\ chunks' = st.chunks
           /\ uuid_next' = st.uuid_next
    /\ mi' = mi + 1
    /\ UNCHANGED <<tok, sents, cpc, si, chunk_texts, current_chunk,
                   current_tokens>>
    /\ OnlyChunkerRuns

ChunkReturn ==
    /\ cpc = "merge"
    /\ mi = Len(chunk_texts)
    /\ cpc' = "done"
    /\ UNCHANGED <<tok, sents, si, chunk_texts, current_chunk,
                   current_tokens, mi, chunks, uuid_next>>
    /\ OnlyChunkerRuns

NextChunk ==
    \/ ChunkFits
    \/ ChunkTooLarge
    \/ SplitSentence
    \/ SplitReturn
    \/ MergeChunk
    \/ ChunkReturn

(***************************************************************************)
(* parse_markdown_sections                                                 *)
(*                                                                         *)
(* A line is a header of depth 1..6 (re.match(r'^(#{1,6})\s+(.+)$')) or a  *)
(* text line, which is blank or not.  A section keeps in `line` the        *)
(* position of its header line (it stands for the title).  Identifiers are *)
(* the strings the f-strings build.                                        *)
(***************************************************************************)
None == "None"

Header(d) == [kind |-> "header", level |-> d]
TextLine  == [kind |-> "text", level |-> 0]
BlankLine == [kind |-> "blank", level |-> 0]

LineKinds == {Header(d) : d \in 1..MaxDepth} \cup {TextLine, BlankLine}

\* chapter numbers of the documents parsed (0: front matter)
Chapters == {0, 3}

RECURSIVE DottedJoin(_)
\* '.'.join(str(n) for n in parts)
DottedJoin(parts) ==
    IF Len(parts) = 1 THEN ToString(Head(parts))
    ELSE ToString(Head(parts)) \o "." \o DottedJoin(Tail(parts))

RECURSIVE Strip(_, _)
\* '\n'.join(current_content).strip(): the lines without the blank lines at
\* both ends; content is a list of line positions of doc
Strip(content, doc) ==
    IF content = <<>> THEN <<>>
    ELSE IF doc[Head(content)].kind = "blank" THEN Strip(Tail(content), doc)
    ELSE IF doc[content[Len(content)]].kind = "blank"
         THEN Strip(SubSeq(content, 1, Len(content) - 1), doc)
    ELSE content

\* variant of UpdateCounters that does not reset the deeper levels
UpdateCounters_NoReset(ctrs, level) ==
    [ctrs EXCEPT ![level] = @ + 1]

\* "Update section counters" and "Reset counters for deeper levels"
UpdateCounters(ctrs, level) ==
    [k \in 1..6 |-> IF k = level THEN ctrs[k] + 1
                    ELSE IF k \in (level + 1)..6 THEN 0
                    ELSE ctrs[k]]

\* variant of SectionIds whose subsection id keeps only the deepest counter
SectionIds_LastPartOnly(ch, level, ctrs) ==
    IF level = 1
    THEN [section_id |-> ToString(ch), subsection_id |-> None]
    ELSE IF level = 2
    THEN [section_id |-> ToString(ch) \o "." \o ToString(ctrs[2]),
          subsection_id |-> None]
    ELSE [section_id |-> ToString(ch) \o "." \o ToString(ctrs[2]),
          subsection_id |-> ToString(ch) \o "." \o ToString(ctrs[level])]

\* variant of SectionIds that numbers a section by the level-1 counter
SectionIds_FromLevel1Counter(ch, level, ctrs) ==
    IF level = 1
    THEN [section_id |-> ToString(ch), subsection_id |-> None]
    ELSE [section_id |-> ToString(ch) \o "." \o ToString(ctrs[1]),
          subsection_id |-> None]

\* "Generate section ID"
SectionIds(ch, level, ctrs) ==
    IF level = 1
    THEN [section_id |-> ToString(ch), subsection_id |-> None]
    ELSE IF level = 2
    THEN [section_id |-> ToString(ch) \o "." \o ToString(ctrs[2]),
          subsection_id |-> None]
    ELSE [section_id |-> ToString(ch) \o "." \o ToString(ctrs[2]),
          subsection_id |->
              ToString(ch) \o "."
                  \o DottedJoin([i \in 1..(level - 1) |-> ctrs[i + 1]])]

Section(pos, level, ch, ids) ==
    [line |-> pos, level |-> level, content |-> <<>>, chapter |-> ch,
     section_id |-> ids.section_id, subsection_id |-> ids.subsection_id]

\* "Save previous section if exists" / "Add final section"
SaveSection(secs, cur, content, doc) ==
    IF cur # <<>> /\ Strip(content, doc) # <<>>
    THEN Append(secs, [cur[1] EXCEPT !.content = Strip(content, doc)])
    ELSE secs

InitParse ==
    /\ lines \in SeqsUpTo(LineKinds, MaxLines)
    /\ chapter \in Chapters
    /\ ppc = "lines"
    /\ li = 0
    /\ current_section = <<>>
    /\ current_content = <<>>
    /\ section_counters = [k \in 1..6 |-> 0]
    /\ sections = <<>>
    /\ ChunkIdle
    /\ uuid_next = 0
    /\ QueryIdle
    /\ CallIdle

\* a header line: flush the previous section, start a new one
ParseHeader ==
    /\ ppc = "lines"
    /\ li < Len(lines)
    /\ lines[li + 1].kind = "header"
    /\ LET level == lines[li + 1].level
           ctrs  == UpdateCounters(section_counters, level)
       IN  /\ sections' = SaveSection(sections, current_section,
                                      current_content, lines)
           /\ section_counters' = ctrs
           /\ current_section' =
                  <<Section(li + 1, level, chapter,
                            SectionIds(chapter, level, ctrs))>>
           /\ current_content' = <<>>
    /\ li' = li + 1
    /\ UNCHANGED <<lines, chapter, ppc>>
    /\ OnlyParserRuns

\* any other line: added to the content of the current section, if any
ParseText ==
    /\ ppc = "lines"
    /\ li < Len(lines)
    /\ lines[li + 1].kind # "header"
    /\ current_content' = IF current_section # <<>>
                          THEN Append(current_content, li + 1)
                          ELSE current_content
    /\ li' = li + 1
    /\ UNCHANGED <<lines, chapter, ppc, current_section, section_counters,
                   sections>>
    /\ OnlyParserRuns

ParseReturn ==
    /\ ppc = "lines"
    /\ li = Len(lines)
    /\ sections' = SaveSection(sections, current_section, current_content,
                               lines)
    /\ ppc' = "done"
    /\ UNCHANGED <<lines, chapter, li, current_section, current_content,
                   section_counters>>
    /\ OnlyParserRuns

NextParse ==
    \/ ParseHeader
    \/ ParseText
    \/ ParseReturn

(***************************************************************************)
(* chunk_section as an operator (used by ingestion)                        *)
(***************************************************************************)
RECURSIVE MergeLoop(_, _, _, _)
\* `for idx, chunk_text in enumerate(chunk_texts)` from index idx on
MergeLoop(st, idx, texts, tk) ==
    IF idx >= Len(texts) THEN st
    ELSE MergeLoop(MergeStep(st, idx, texts[idx + 1], tk), idx + 1, texts, tk)

\* result = [chunks, uuid_next]; uuid0 = number of uuid4 values drawn before
chunk_section(sentences, tk, uuid0) ==
    LET content        == ContentWords(tk)
        section_tokens == count_tokens(content, tk)
    IN  IF section_tokens <= MAX_CHUNK_TOKENS
        THEN [chunks    |-> <<ChunkMetadata(Uuid4Str(uuid0), content,
                                            section_tokens, 0)>>,
              uuid_next |-> uuid0 + 1]
        ELSE MergeLoop([chunks |-> <<>>, uuid_next |-> uuid0], 0,
                       split_text_by_sentences(sentences, tk,
                                               MAX_CHUNK_TOKENS), tk)

(***************************************************************************)
(* Embeddings and similarity                                               *)
(*                                                                         *)
(* Embeddings are normalized; the model uses vectors of length 10 with     *)
(* integer coordinates, so a dot product is a cosine similarity in         *)
(* hundredths (100 stands for 1.0).                                        *)
(***************************************************************************)
ChunkVectors == {<<10, 0>>, <<6, 8>>}

QueryVectors == {<<10, 0>>, <<-10, 0>>}

\* np.dot(query_vec, chunk_vec)
Dot(u, v) == u[1] * v[1] + u[2] * v[2]

Min(a, b) == IF a <= b THEN a ELSE b

RECURSIVE InsertDesc(_, _)
\* s is sorted by descending key; x goes behind every element whose key is
\* not smaller than its own (list.sort is stable)
InsertDesc(s, x) ==
    IF s = <<>> THEN <<x>>
    ELSE IF Head(s).key >= x.key THEN <<Head(s)>> \o InsertDesc(Tail(s), x)
    ELSE <<x>> \o s

RECURSIVE SortDesc(_)
\* list.sort(key=..., reverse=True) on a sequence of [key, item]
SortDesc(s) ==
    IF s = <<>> THEN <<>>
    ELSE InsertDesc(SortDesc(SubSeq(s, 1, Len(s) - 1)), s[Len(s)])

(***************************************************************************)
(* Ephemeral index (selected_text.py)                                      *)
(***************************************************************************)
max_chunk_tokens == 512

\* f"{i:03d}"
Pad3(i) ==
    IF i < 10 THEN "00" \o ToString(i)
    ELSE IF i < 100 THEN "0" \o ToString(i)
    ELSE ToString(i)

\* variant of EphemeralChunkId without zero padding
EphemeralChunkId_Unpadded(i) == "selected-" \o ToString(i)

\* f"selected-{i:03d}"
EphemeralChunkId(i) == "selected-" \o Pad3(i)

\* a selected text is [tok, sents]: token counts of its words and its
\* sentence segmentation
chunk_selected_text(text) ==
    LET content == ContentWords(text.tok)
    IN  IF count_tokens(content, text.tok) <= max_chunk_tokens
        THEN <<content>>
        ELSE split_text_by_sentences(text.sents, text.tok, max_chunk_tokens)

\* the chunks of the EphemeralVectorStore built from text_chunks and their
\* embeddings
create_ephemeral_store(text_chunks, embeddings) ==
    [i \in 1..Len(text_chunks) |->
        [chunk_id    |-> EphemeralChunkId(i - 1),
         text        |-> text_chunks[i],
         embedding   |-> embeddings[i],
         chunk_index |-> i - 1]]

\* s[:k] of a Python list: the first k elements, or all but the last -k
\* when k is negative
Slice(s, k) ==
    IF k >= 0 THEN SubSeq(s, 1, Min(k, Len(s)))
    ELSE SubSeq(s, 1, Len(s) + k)

\* variant of EphemeralSearch without the threshold filter
EphemeralSearch_NoThreshold(store_chunks, query_embedding, top_k, score_threshold) ==
    IF store_chunks = <<>> THEN <<>>
    ELSE LET scores == [i \in 1..Len(store_chunks) |->
                          [key  |-> Dot(query_embedding,
                                        store_chunks[i].embedding),
                           item |-> store_chunks[i]]]
             sorted == SortDesc(scores)
             kept   == SubSeq(sorted, 1, Min(top_k, Len(sorted)))
         IN  [i \in 1..Len(kept) |->
                [chunk_id    |-> kept[i].item.chunk_id,
                 score       |-> kept[i].key,
                 text        |-> kept[i].item.text,
                 chunk_index |-> kept[i].item.chunk_index]]

\* variant of EphemeralSearch that slices the scores before sorting them
EphemeralSearch_SliceBeforeSort(store_chunks, query_embedding, top_k, score_threshold) ==
    IF store_chunks = <<>> THEN <<>>
    ELSE LET scores == [i \in 1..Len(store_chunks) |->
                          [key  |-> Dot(query_embedding,
                                        store_chunks[i].embedding),
                           item |-> store_chunks[i]]]
             sorted == SortDesc(Slice(scores, top_k))
             top    == sorted
             kept   == SelectSeq(top, LAMBDA p : p.key >= score_threshold)
         IN  [i \in 1..Len(kept) |->
                [chunk_id    |-> kept[i].item.chunk_id,
                 score       |-> kept[i].key,
                 text        |-> kept[i].item.text,
                 chunk_index |-> kept[i].item.chunk_index]]

\* EphemeralVectorStore.search
EphemeralSearch(store_chunks, query_embedding, top_k, score_threshold) ==
    IF store_chunks = <<>> THEN <<>>
    ELSE LET scores == [i \in 1..Len(store_chunks) |->
                          [key  |-> Dot(query_embedding,
                                        store_chunks[i].embedding),
                           item |-> store_chunks[i]]]
             sorted == SortDesc(scores)
             top    == Slice(sorted, top_k)
             kept   == SelectSeq(top, LAMBDA p : p.key >= score_threshold)
         IN  [i \in 1..Len(kept) |->
                [chunk_id    |-> kept[i].item.chunk_id,
                 score       |-> kept[i].key,
                 text        |-> kept[i].item.text,
                 chunk_index |-> kept[i].item.chunk_index]]

SearchResult(chunk_id, score, text, ch, section) ==
    [chunk_id |-> chunk_id, score |-> score, text |-> text, chapter |-> ch,
     section |-> section]

\* variant of AgentChunks that numbers the results instead of copying
\* the chunk identifier
AgentChunks_IdFromRank(search_results) ==
    [i \in 1..Len(search_results) |->
        SearchResult(EphemeralChunkId(i - 1), search_results[i].score,
                     search_results[i].text, 0, "selected")]

\* "Convert ephemeral results to format agent expects"
AgentChunks(search_results) ==
    [i \in 1..Len(search_results) |->
        SearchResult(search_results[i].chunk_id, search_results[i].score,
                     search_results[i].text, 0, "selected")]

(***************************************************************************)
(* Persistent index (vector_store.py): the Qdrant collection is a set of   *)
(* points with distinct ids.                                               *)
(***************************************************************************)
\* client.upsert: a point replaces the point with the same id
Upsert(points, batch) ==
    {p \in points : \A i \in DOMAIN batch : batch[i].id # p.id}
        \cup {batch[i] : i \in DOMAIN batch}

\* the injective sequences of length n over S
Arrangements(S, n) ==
    {s \in [1..n -> S] : \A i, j \in 1..n : i # j => s[i] # s[j]}

\* client.search: the `limit` best points whose score reaches the
\* threshold, best first; the order among equal scores is Qdrant's choice
QdrantHits(points, query_vector, limit, score_threshold) ==
    LET Score(p) == Dot(query_vector, p.vector)
        passing  == {p \in points : Score(p) >= score_threshold}
        n        == Min(limit, Cardinality(passing))
    IN  {s \in Arrangements(passing, n) :
            /\ \A i \in 1..(n - 1) : Score(s[i]) >= Score(s[i + 1])
            /\ \A p \in passing :
                  (\A i \in 1..n : s[i] # p)
                      => \A i \in 1..n : Score(s[i]) >= Score(p)}

\* QdrantVectorStore.search: hits converted to SearchResult
VectorSearchResults(hits, query_vector) ==
    [i \in 1..Len(hits) |->
        SearchResult(hits[i].id, Dot(query_vector, hits[i].vector),
                     hits[i].text, hits[i].chapter, hits[i].section)]

(***************************************************************************)
(* Citation binder (agent.py, _extract_citations)                          *)
(*                                                                         *)
(* An answer is modelled by the sequence of its citation markers, in text  *)
(* order: [chapter, section] for "[Chapter X, Section Y.Z]" and            *)
(* [chapter, None] for "[Chapter X]".                                      *)
(***************************************************************************)
Markers ==
    {[chapter |-> 0, section |-> None],
     [chapter |-> 3, section |-> None],
     [chapter |-> 4, section |-> "4.1"]}

Answers == SeqsUpTo(Markers, MaxMarkers)

\* Citation(...): the fields the model keeps
Citation(chunk) ==
    [chunk_id        |-> chunk.chunk_id,
     chapter         |-> chunk.chapter,
     section         |-> chunk.section,
     relevance_score |-> chunk.score,
     text_preview    |-> SubSeq(chunk.text, 1, Min(1, Len(chunk.text)))]

\* the Field constraints of the Citation schema
CitationValid(c) ==
    /\ c.chapter >= 0
    /\ c.relevance_score >= 0
    /\ c.relevance_score <= 100

\* variant of CiteStep that compares the chapter only
CiteStep_ChapterOnly(st, marker, chunk) ==
    LET chunk_key == <<chunk.chunk_id, chunk.chapter, chunk.section>>
    IN  IF chunk.chapter # marker.chapter THEN st
        ELSE IF chunk_key \in st.cited THEN st
        ELSE [citations |-> Append(st.citations, Citation(chunk)),
              cited     |-> st.cited \cup {chunk_key}]

\* variant of CiteStep that does not look at cited_chunks
CiteStep_NoDedup(st, marker, chunk) ==
    LET chunk_key == <<chunk.chunk_id, chunk.chapter, chunk.section>>
    IN  IF chunk.chapter # marker.chapter THEN st
        ELSE IF marker.section # None /\ chunk.section # marker.section
        THEN st
        ELSE [citations |-> Append(st.citations, Citation(chunk)),
              cited     |-> st.cited \cup {chunk_key}]

\* body of `for chunk in chunks` for one marker; st = [citations, cited]
CiteStep(st, marker, chunk) ==
    LET chunk_key == <<chunk.chunk_id, chunk.chapter, chunk.section>>
    IN  IF chunk.chapter # marker.chapter THEN st
        ELSE IF marker.section # None /\ chunk.section # marker.section
        THEN st
        ELSE IF chunk_key \in st.cited THEN st
        ELSE [citations |-> Append(st.citations, Citation(chunk)),
              cited     |-> st.cited \cup {chunk_key}]

RECURSIVE ChunkLoop(_, _, _)
ChunkLoop(st, marker, chunks_) ==
    IF chunks_ = <<>> THEN st
    ELSE ChunkLoop(CiteStep(st, marker, Head(chunks_)), marker,
                   Tail(chunks_))

RECURSIVE MatchLoop(_, _, _)
MatchLoop(st, matches, chunks_) ==
    IF matches = <<>> THEN st
    ELSE MatchLoop(ChunkLoop(st, Head(matches), chunks_), Tail(matches),
                   chunks_)

\* variant of Fallback that adds nothing
Fallback_None(citations, chunks_) == citations

\* variant of Fallback that adds every chunk
Fallback_All(citations, chunks_) ==
    IF citations = <<>> /\ chunks_ # <<>>
    THEN [i \in 1..Len(chunks_) |-> Citation(chunks_[i])]
    ELSE citations

\* "If no citations found in text but chunks were provided, add top chunks"
Fallback(citations, chunks_) ==
    IF citations = <<>> /\ chunks_ # <<>>
    THEN [i \in 1..Min(3, Len(chunks_)) |-> Citation(chunks_[i])]
    ELSE citations

\* variant of _extract_citations without the final sort
_extract_citations_Unsorted(answer, chunks_) ==
    Fallback(MatchLoop([citations |-> <<>>, cited |-> {}], answer,
                       chunks_).citations, chunks_)

\* the citations before validation, sorted by descending relevance_score;
\* answer is the sequence of the matches of citation_pattern
_extract_citations(answer, chunks_) ==
    LET found  == MatchLoop([citations |-> <<>>, cited |-> {}], answer,
                            chunks_).citations
        all    == Fallback(found, chunks_)
        keyed  == [i \in 1..Len(all) |->
                      [key |-> all[i].relevance_score, item |-> all[i]]]
        sorted == SortDesc(keyed)
    IN  [i \in 1..Len(sorted) |-> sorted[i].item]

\* `c for c in citations if c.chunk_id.startswith("selected-")`
FilterSelected(citations) ==
    SelectSeq(citations, LAMBDA c : startswith(c.chunk_id, "selected-"))

(***************************************************************************)
(* Inputs of the service                                                   *)
(***************************************************************************)
\* selected texts after sanitization
SelectedTexts ==
    UNION {{[tok |-> t, sents |-> s] : s \in Segmentations(Len(t))} :
              t \in SeqsUpTo({300}, MaxSelectedWords) \ {<<>>}}

\* chapter files of the textbook, each with one section; vectors[i] is the
\* embedding of the chunk that starts at word i
IngestChapters ==
    {[chapter |-> 3, section_id |-> "3.2", tok |-> <<300>>,
      sents |-> <<<<1>>>>, vectors |-> <<<<10, 0>>>>],
     [chapter |-> 4, section_id |-> "4.1", tok |-> <<300, 300>>,
      sents |-> <<<<1>>, <<2>>>>, vectors |-> <<<<6, 8>>, <<10, 0>>>>]}

\* settings.retrieval_top_k values the deployment may configure
TopKs == {1, 5}

\* settings.environment values the deployment may configure
Environments == {"development", "production"}

\* settings.retrieval_score_threshold, in hundredths
retrieval_score_threshold == 30

\* str(e) of the exceptions the embedding model, the Qdrant client and the
\* LLM client raise; none of the services wraps them
ExceptionTexts ==
    {"Request timed out.", "Qdrant unreachable", "Gemini quota exceeded"}

\* str(e) of the UnboundLocalError for the local `settings` of chat
UnboundLocalText ==
    "cannot access local variable 'settings' where it is not associated with a value"

\* str(e) of pydantic's ValidationError for a Citation
ValidationText == "1 validation error for Citation"

\* the answers of the two routes when the search returns no result
NotFoundInBook ==
    "Information not found in the book. Please try rephrasing your question or ask about a different topic covered in the textbook."

NotFoundInSelection == "Information not found in the selected text."

\* response.choices[0].message.content: the text itself is kept out of the
\* state, its citation markers are the `answer` argument of the binder
LLMText == "<text of the LLM>"

\* the exception `e` of an except clause, and the step that raised it
Raised(at, text) == [at |-> at, text |-> text]

\* ChatResponse(answer=..., citations=...); outcome names the branch of the
\* handler that built it
ChatResponse(outcome, answer, citations) ==
    [outcome |-> outcome, status |-> 200, answer |-> answer,
     citations |-> citations, error |-> None, message |-> None,
     by |-> "route"]

\* HTTPException(status_code, detail) raised by a route handler
HTTPException(status_code, error, message) ==
    [outcome |-> IF status_code = 400 THEN "invalid" ELSE "error",
     status |-> status_code, answer |-> None, citations |-> <<>>,
     error |-> error, message |-> message, by |-> "route"]

\* the application-wide handler of exceptions no route handler turned into
\* an HTTPException
global_exception_handler(text, stg) ==
    [outcome |-> "error", status |-> 500, answer |-> None,
     citations |-> <<>>, error |-> "Internal server error",
     message |-> IF stg.debug THEN text ELSE "An unexpected error occurred",
     by |-> "app"]

\* the `if`/`elif` of chat's except clause on str(e): status code and
\* error message
ChatErrorKind(e) ==
    IF Contains(e, "Qdrant") \/ Contains(Lower(e), "vector")
    THEN <<503, "Vector search service unavailable">>
    ELSE IF Contains(Lower(e), "agent") \/ Contains(e, "Gemini")
    THEN <<503, "AI service unavailable">>
    ELSE <<500, "An error occurred while processing your request">>

\* the `if` of chat_selected's except clause on str(e)
SelectedErrorKind(e) ==
    IF Contains(Lower(e), "agent") \/ Contains(e, "Gemini")
    THEN <<503, "AI service unavailable">>
    ELSE <<500,
           "An error occurred while processing your selected-text query">>

\* the texts a route handler can catch, classified once
CaughtTexts == ExceptionTexts \cup {ValidationText}

ChatErrorKinds == [e \in CaughtTexts |-> ChatErrorKind(e)]

SelectedErrorKinds == [e \in CaughtTexts |-> SelectedErrorKind(e)]

\* `except Exception as e` of chat; settings_bound: whether the try block
\* reached `settings = get_settings()`
ChatExcept(e, stg, settings_bound) ==
    IF settings_bound
    THEN HTTPException(ChatErrorKinds[e][1], ChatErrorKinds[e][2],
                       IF stg.debug THEN e ELSE None)
    ELSE global_exception_handler(UnboundLocalText, stg)

\* `except Exception as e` of chat_selected
SelectedExcept(e, stg) ==
    HTTPException(SelectedErrorKinds[e][1], SelectedErrorKinds[e][2],
                  IF stg.debug THEN e ELSE None)

\* the except clause of the route of mode m, all locals bound
Except(m, e, stg) ==
    IF m = "global" THEN ChatExcept(e, stg, TRUE) ELSE SelectedExcept(e, stg)

\* variant of NotFoundResponse that reports an error
NotFoundResponse_AsError(m) ==
    HTTPException(500, "An error occurred while processing your request",
                  None)

\* what the route of mode m returns when the search returns no result
NotFoundResponse(m) ==
    ChatResponse("not_found",
                 IF m = "global" THEN NotFoundInBook
                 ELSE NotFoundInSelection,
                 <<>>)

(***************************************************************************)
(* The service: ingestion script and the two chat routes.  A request runs  *)
(* on the asyncio event loop, so a handler is atomic between two awaits:   *)
(* one step from its start to the call of the LLM, one step from the       *)
(* LLM's reply to its return.                                              *)
(***************************************************************************)
InitQuery ==
    /\ ChunkIdle
    /\ ParseIdle
    /\ CallIdle
    /\ uuid_next = 0
    /\ settings \in [retrieval_top_k : TopKs, debug : {FALSE},
                     environment : {"development"}]
    /\ collection = {}
    /\ qdrant_log = {}
    /\ ingests = 0
    /\ rpc = [q \in Requests |-> "new"]
    /\ mode = [q \in Requests |-> "none"]
    /\ qvec = [q \in Requests |-> <<0, 0>>]
    /\ store = [q \in Requests |-> <<>>]
    /\ built = [q \in Requests |-> <<>>]
    /\ context = [q \in Requests |-> <<>>]
    /\ response = [q \in Requests |-> NoResponse]
    /\ steps = [q \in Requests |-> <<>>]
    /\ nhits = [q \in Requests |-> -1]
    /\ exc = [q \in Requests |-> NoException]

\* the handler of request q returns resp (or raises the HTTPException resp
\* stands for); its locals are gone
Return(q, resp) ==
    /\ rpc' = [rpc EXCEPT ![q] = "done"]
    /\ response' = [response EXCEPT ![q] = resp]
    /\ store' = [store EXCEPT ![q] = <<>>]
    /\ context' = [context EXCEPT ![q] = <<>>]

\* the handler of request q awaits the LLM with context_chunks
AwaitLLM(q, context_chunks) ==
    /\ rpc' = [rpc EXCEPT ![q] = "awaiting_llm"]
    /\ context' = [context EXCEPT ![q] = context_chunks]
    /\ UNCHANGED response

\* request q invoked the steps `invoked`, in this order
Invoked(q, invoked) ==
    steps' = [steps EXCEPT ![q] = @ \o invoked]

\* the except clause of request q caught the exception e
Caught(q, e) ==
    exc' = [exc EXCEPT ![q] = e]

\* ingest_chapters over one chapter file: chunk, embed, upload, count
Ingest ==
    /\ ingests < MaxIngests
    /\ ingests' = ingests + 1
    /\ \E processed \in BOOLEAN :
          IF ~processed
          THEN UNCHANGED <<uuid_next, collection, qdrant_log>>
          ELSE \E ch \in IngestChapters :
                  LET r == chunk_section(ch.sents, ch.tok, uuid_next)
                  IN     LET chunk_dicts ==
                                 [i \in 1..Len(r.chunks) |->
                                     [id          |-> r.chunks[i].chunk_id,
                                      vector      |->
                                          ch.vectors[Head(r.chunks[i].text)],
                                      text        |-> r.chunks[i].text,
                                      chapter     |-> ch.chapter,
                                      section     |-> ch.section_id,
                                      token_count |->
                                          r.chunks[i].token_count,
                                      chunk_index |->
                                          r.chunks[i].chunk_index]]
                         IN  /\ uuid_next' = r.uuid_next
                             /\ collection' = Upsert(collection, chunk_dicts)
                             /\ qdrant_log' = qdrant_log \cup
                                   {[op |-> "upsert", by |-> 0],
                                    [op |-> "count", by |-> 0]}
    /\ UNCHANGED <<settings, rpc, mode, qvec, store, built, context,
                   response, steps, nhits, exc>>
    /\ OnlyServiceRuns

\* variant of SelectedRetrieve that keeps the ephemeral store in an attribute
\* of the service singleton, where every request finds it
SelectedRetrieve_SharedStore(q, ephemeral_store) ==
    /\ built' = [built EXCEPT ![q] = ephemeral_store]
    /\ \E embedded \in BOOLEAN :
          IF ~embedded
          THEN /\ Invoked(q, <<"validate", "build_index", "embed_query">>)
               /\ \E e \in ExceptionTexts :
                     /\ Caught(q, Raised("embed_query", e))
                     /\ Return(q, SelectedExcept(e, settings))
               /\ UNCHANGED <<qvec, nhits>>
          ELSE \E query_embedding \in QueryVectors :
                  \E search_results \in
                         {EphemeralSearch(ephemeral_store, query_embedding,
                                          settings.retrieval_top_k, 0)} :
                      /\ qvec' = [qvec EXCEPT ![q] = query_embedding]
                      /\ nhits' = [nhits EXCEPT ![q] = Len(search_results)]
                      /\ UNCHANGED exc
                      /\ IF search_results = <<>>
                         THEN /\ Invoked(q, <<"validate", "build_index",
                                              "embed_query", "search">>)
                              /\ Return(q, NotFoundResponse("selected-text"))
                         ELSE /\ Invoked(q, <<"validate", "build_index",
                                              "embed_query", "search",
                                              "generate">>)
                              /\ AwaitLLM(q, AgentChunks(search_results))
                              /\ store' = [r \in Requests |->
                                             ephemeral_store]

\* answer_query of the selected-text service up to the LLM call (or to its
\* return), after the embeddings of the chunks were computed
SelectedRetrieve(q, ephemeral_store) ==
    /\ built' = [built EXCEPT ![q] = ephemeral_store]
    /\ \E embedded \in BOOLEAN :
          IF ~embedded
          THEN /\ Invoked(q, <<"validate", "build_index", "embed_query">>)
               /\ \E e \in ExceptionTexts :
                     /\ Caught(q, Raised("embed_query", e))
                     /\ Return(q, SelectedExcept(e, settings))
               /\ UNCHANGED <<qvec, nhits>>
          ELSE \E query_embedding \in QueryVectors :
                  \E search_results \in
                         {EphemeralSearch(ephemeral_store, query_embedding,
                                          settings.retrieval_top_k, 0)} :
                      /\ qvec' = [qvec EXCEPT ![q] = query_embedding]
                      /\ nhits' = [nhits EXCEPT ![q] = Len(search_results)]
                      /\ UNCHANGED exc
                      /\ IF search_results = <<>>
                         THEN /\ Invoked(q, <<"validate", "build_index",
                                              "embed_query", "search">>)
                              /\ Return(q, NotFoundResponse("selected-text"))
                         ELSE /\ Invoked(q, <<"validate", "build_index",
                                              "embed_query", "search",
                                              "generate">>)
                              /\ AwaitLLM(q, AgentChunks(search_results))
                              /\ store' = [store EXCEPT
                                             ![q] = ephemeral_store]

\* the stores create_ephemeral_store can build: the chunks of a selected
\* text with the embeddings embed_texts returned for them
SelectedStores ==
    UNION {LET text_chunks == chunk_selected_text(text)
           IN  {create_ephemeral_store(text_chunks, embeddings) :
                   embeddings \in [1..Len(text_chunks) -> ChunkVectors]} :
           text \in SelectedTexts}

\* chat_selected up to the search of the ephemeral store
SelectedSteps(q) ==
    \E step \in {"invalid", "embed_texts raises", "embedded"} :
       IF step = "invalid"
       THEN /\ Invoked(q, <<"validate">>)
            /\ Return(q, HTTPException(400, "invalid request", None))
            /\ UNCHANGED <<qvec, built, nhits, exc>>
       ELSE IF step = "embed_texts raises"
       THEN /\ Invoked(q, <<"validate", "build_index">>)
            /\ \E e \in ExceptionTexts :
                  /\ Caught(q, Raised("build_index", e))
                  /\ Return(q, SelectedExcept(e, settings))
            /\ UNCHANGED <<qvec, built, nhits>>
       ELSE \E ephemeral_store \in SelectedStores :
               SelectedRetrieve(q, ephemeral_store)

\* variant of SelectedStart that also queries the Qdrant collection
SelectedStart_SearchesCollection(q) ==
    /\ rpc[q] = "new"
    /\ mode' = [mode EXCEPT ![q] = "selected-text"]
    /\ SelectedSteps(q)
    /\ qdrant_log' = qdrant_log \cup {[op |-> "search", by |-> q]}
    /\ UNCHANGED <<settings, collection, ingests, uuid_next>>
    /\ OnlyServiceRuns

\* chat_selected from its start to the LLM call (or to its return)
SelectedStart(q) ==
    /\ rpc[q] = "new"
    /\ mode' = [mode EXCEPT ![q] = "selected-text"]
    /\ SelectedSteps(q)
    /\ UNCHANGED <<settings, collection, qdrant_log, ingests, uuid_next>>
    /\ OnlyServiceRuns

\* chat from its start to the LLM call (or to its return)
GlobalStart(q) ==
    /\ rpc[q] = "new"
    /\ mode' = [mode EXCEPT ![q] = "global"]
    /\ \E step \in {"invalid", "embed_text raises", "search raises",
                    "searched"} :
          IF step = "invalid"
          THEN /\ Invoked(q, <<"validate">>)
               /\ Return(q, HTTPException(400, "invalid request", None))
               /\ UNCHANGED <<qvec, qdrant_log, nhits, exc>>
          ELSE IF step = "embed_text raises"
          THEN \* `settings` is not bound yet when the handler's except
               \* clause reads it: the application-wide handler answers
               /\ Invoked(q, <<"validate", "embed_query">>)
               /\ \E e \in ExceptionTexts :
                     /\ Caught(q, Raised("embed_query", e))
                     /\ Return(q, ChatExcept(e, settings, FALSE))
               /\ UNCHANGED <<qvec, qdrant_log, nhits>>
          ELSE \E query_embedding \in QueryVectors :
                  /\ qvec' = [qvec EXCEPT ![q] = query_embedding]
                  /\ qdrant_log' = qdrant_log \cup
                                       {[op |-> "search", by |-> q]}
                  /\ IF step = "search raises"
                     THEN /\ Invoked(q, <<"validate", "embed_query",
                                          "search">>)
                          /\ \E e \in ExceptionTexts :
                                /\ Caught(q, Raised("search", e))
                                /\ Return(q, ChatExcept(e, settings, TRUE))
                          /\ UNCHANGED nhits
                     ELSE \E hits \in QdrantHits(
                                 collection, query_embedding,
                                 settings.retrieval_top_k,
                                 retrieval_score_threshold) :
                             /\ nhits' = [nhits EXCEPT ![q] = Len(hits)]
                             /\ UNCHANGED exc
                             /\ IF hits = <<>>
                                THEN /\ Invoked(q, <<"validate",
                                                     "embed_query",
                                                     "search">>)
                                     /\ Return(q, NotFoundResponse("global"))
                                ELSE /\ Invoked(q, <<"validate",
                                                     "embed_query",
                                                     "search", "generate">>)
                                     /\ AwaitLLM(q, VectorSearchResults(
                                                     hits, query_embedding))
                                     /\ UNCHANGED store
    /\ UNCHANGED <<settings, collection, ingests, uuid_next, built>>
    /\ OnlyServiceRuns

\* what the handler of a request in mode m returns when the LLM replies
\* with answer to context_chunks, and the exception it caught on the way
Reply(m, answer, context_chunks, stg) ==
    LET citations == _extract_citations(answer, context_chunks)
        returned  == IF m = "selected-text" THEN FilterSelected(citations)
                     ELSE citations
    IN  IF \A i \in DOMAIN citations : CitationValid(citations[i])
        THEN [response |-> ChatResponse("answered", LLMText, returned),
              exc      |-> NoException]
        ELSE [response |-> Except(m, ValidationText, stg),
              exc      |-> Raised("bind", ValidationText)]

\* the LLM replies to request q: bind citations, build the response
LLMReturns(q) ==
    /\ rpc[q] = "awaiting_llm"
    /\ Invoked(q, <<"bind">>)
    /\ \E r \in {Reply(mode[q], answer, context[q], settings) :
                    answer \in Answers} :
          /\ Caught(q, r.exc)
          /\ Return(q, r.response)
    /\ UNCHANGED <<settings, collection, qdrant_log, ingests, uuid_next,
                   mode, qvec, built, nhits>>
    /\ OnlyServiceRuns

\* variant of LLMFails that calls the LLM a second time before giving up
LLMFails_Retries(q) ==
    /\ rpc[q] = "awaiting_llm"
    /\ IF Len(SelectSeq(steps[q], LAMBDA step : step = "generate")) < 2
       THEN /\ Invoked(q, <<"generate">>)
            /\ UNCHANGED <<rpc, response, store, context, exc>>
       ELSE /\ \E e \in ExceptionTexts :
                  /\ Caught(q, Raised("generate", e))
                  /\ Return(q, Except(mode[q], e, settings))
            /\ UNCHANGED steps
    /\ UNCHANGED <<settings, collection, qdrant_log, ingests, uuid_next,
                   mode, qvec, built, nhits>>
    /\ OnlyServiceRuns

\* the call of the LLM raises
LLMFails(q) ==
    /\ rpc[q] = "awaiting_llm"
    /\ \E e \in ExceptionTexts :
          /\ Caught(q, Raised("generate", e))
          /\ Return(q, Except(mode[q], e, settings))
    /\ UNCHANGED <<settings, collection, qdrant_log, ingests, uuid_next,
                   mode, qvec, built, steps, nhits>>
    /\ OnlyServiceRuns

NextQuery ==
    \/ Ingest
    \/ \E q \in Requests : SelectedStart(q)
    \/ \E q \in Requests : GlobalStart(q)
    \/ \E q \in Requests : LLMReturns(q)
    \/ \E q \in Requests : LLMFails(q)

(***************************************************************************)
(* A search called on its own: the arguments are drawn in the initial      *)
(* state, one step applies the search.                                     *)
(***************************************************************************)
SearchVectors == ChunkVectors \cup {<<-10, 0>>}

\* score_threshold arguments, in hundredths
ScoreThresholds == {0, 30, 70}

\* the ephemeral stores of up to MaxCandidates one-word chunks
EphemeralStores ==
    UNION {{create_ephemeral_store([i \in 1..n |-> <<i>>], e) :
                e \in [1..n -> SearchVectors]} : n \in 0..MaxCandidates}

\* the points a collection holds for the chunks of an ephemeral store
PointsOf(store_chunks) ==
    {[id          |-> Uuid4Str(i),
      vector      |-> store_chunks[i].embedding,
      text        |-> store_chunks[i].text,
      chapter     |-> 3,
      section     |-> "3.2",
      token_count |-> 300,
      chunk_index |-> 0] : i \in DOMAIN store_chunks}

InitSearch ==
    /\ ChunkIdle
    /\ ParseIdle
    /\ QueryIdle
    /\ uuid_next = 0
    /\ fpc = "called"
    /\ fargs \in [fn              : {"EphemeralVectorStore.search",
                                     "QdrantVectorStore.search"},
                  chunks          : EphemeralStores,
                  query_embedding : QueryVectors,
                  top_k           : 0..MaxCandidates,
                  score_threshold : ScoreThresholds]
    /\ fresult = <<>>

\* EphemeralVectorStore(chunks).search(query_embedding, top_k,
\* score_threshold) returns
EphemeralSearchReturns ==
    /\ fpc = "called"
    /\ fargs.fn = "EphemeralVectorStore.search"
    /\ fpc' = "returned"
    /\ fresult' = EphemeralSearch(fargs.chunks, fargs.query_embedding,
                                  fargs.top_k, fargs.score_threshold)
    /\ UNCHANGED fargs
    /\ OnlyCallRuns

\* QdrantVectorStore.search(query_embedding, top_k,
\* score_threshold=score_threshold) returns
VectorSearchReturns ==
    /\ fpc = "called"
    /\ fargs.fn = "QdrantVectorStore.search"
    /\ fpc' = "returned"
    /\ \E hits \in QdrantHits(PointsOf(fargs.chunks), fargs.query_embedding,
                              fargs.top_k, fargs.score_threshold) :
          fresult' = VectorSearchResults(hits, fargs.query_embedding)
    /\ UNCHANGED fargs
    /\ OnlyCallRuns

NextSearch ==
    \/ EphemeralSearchReturns
    \/ VectorSearchReturns

SpecSearch == InitSearch /\ [][NextSearch]_vars

(***************************************************************************)
(* The citation binder called on its own.  An answer text is a sequence of *)
(* bracketed pieces; `word` is the first word inside the bracket as the    *)
(* LLM wrote it.                                                           *)
(***************************************************************************)
Piece(word, ch, section) ==
    [word |-> word, chapter |-> ch, section |-> section]

AnswerPieces ==
    {Piece("Chapter", 3, None),        \* "[Chapter 3]"
     Piece("Chapter", 3, "3.2"),       \* "[Chapter 3, Section 3.2]"
     Piece("Chapter", 3, "3.1"),       \* "[Chapter 3, Section 3.1]"
     Piece("chapter", 4, "4.1"),       \* "[chapter 4, section 4.1]"
     Piece("Source", 3, None)}         \* "[Source 3]"

\* re.finditer(citation_pattern, answer, re.IGNORECASE): group(1) and
\* group(2) of every match, in text order
finditer(text) ==
    LET matching == SelectSeq(text, LAMBDA p : Lower(p.word) = "chapter")
    IN  [i \in 1..Len(matching) |->
            [chapter |-> matching[i].chapter,
             section |-> matching[i].section]]

\* what a candidate passage may be: chapter, section and retrieval score
CandidateKinds ==
    {[chapter |-> 3, section |-> "3.2", score |-> 80],
     [chapter |-> 3, section |-> "3.2", score |-> 60],
     [chapter |-> 4, section |-> "4.1", score |-> 80],
     [chapter |-> 4, section |-> "4.1", score |-> 60]}

\* the candidate lists of up to MaxContext passages with distinct ids
CandidateLists ==
    UNION {{[i \in 1..n |-> SearchResult(Uuid4Str(i), k[i].score, <<i>>,
                                         k[i].chapter, k[i].section)] :
                k \in [1..n -> CandidateKinds]} : n \in 0..MaxContext}

InitBind ==
    /\ ChunkIdle
    /\ ParseIdle
    /\ QueryIdle
    /\ uuid_next = 0
    /\ fpc = "called"
    /\ fargs \in [fn     : {"_extract_citations"},
                  answer : SeqsUpTo(AnswerPieces, MaxPieces),
                  chunks : CandidateLists]
    /\ fresult = <<>>

\* _extract_citations(answer, chunks) returns
BindReturns ==
    /\ fpc = "called"
    /\ fargs.fn = "_extract_citations"
    /\ fpc' = "returned"
    /\ fresult' = _extract_citations(finditer(fargs.answer), fargs.chunks)
    /\ UNCHANGED fargs
    /\ OnlyCallRuns

NextBind == BindReturns

SpecBind == InitBind /\ [][NextBind]_vars

(***************************************************************************)
(* create_collection called on a Qdrant server, once or several times with *)
(* the same arguments.  A client operation that raises has no effect on    *)
(* the server.                                                             *)
(***************************************************************************)
CollectionNames == {"textbook_chunks", "scratch"}

\* a collection of the server: absent, or present with its points
AbsentCollection == [exists |-> FALSE, points |-> {}]

EmptyCollection == [exists |-> TRUE, points |-> {}]

\* what the server may hold when the script starts
Servers ==
    [CollectionNames ->
        {AbsentCollection, EmptyCollection,
         [exists |-> TRUE, points |-> {Uuid4Str(1)}]}]

\* one operation of the Qdrant client, and whether it returned
ClientOp(op, name, ok) == [op |-> op, name |-> name, ok |-> ok]

\* the client operations of create_collection that may raise
CreateFailures ==
    {"none", "get_collections", "delete_collection", "create_collection"}

\* variant of create_collection that ignores `recreate`
create_collection_AlwaysRecreates(srv, collection_name, recreate, fail) ==
    IF fail = "get_collections"
    THEN [server |-> srv, raised |-> TRUE,
          ops |-> <<ClientOp("get_collections", collection_name, FALSE)>>]
    ELSE LET got == <<ClientOp("get_collections", collection_name, TRUE)>>
         IN  IF srv[collection_name].exists /\ fail = "delete_collection"
             THEN [server |-> srv, raised |-> TRUE,
                   ops |-> got \o <<ClientOp("delete_collection",
                                             collection_name, FALSE)>>]
             ELSE LET deleted ==
                          IF srv[collection_name].exists
                          THEN <<ClientOp("delete_collection",
                                          collection_name, TRUE)>>
                          ELSE <<>>
                      after_delete ==
                          [srv EXCEPT ![collection_name] = AbsentCollection]
                  IN  IF fail = "create_collection"
                      THEN [server |-> after_delete, raised |-> TRUE,
                            ops |-> got \o deleted \o
                                    <<ClientOp("create_collection",
                                               collection_name, FALSE)>>]
                      ELSE [server |-> [after_delete EXCEPT
                                           ![collection_name] =
                                               EmptyCollection],
                            raised |-> FALSE,
                            ops |-> got \o deleted \o
                                    <<ClientOp("create_collection",
                                               collection_name, TRUE)>>]

\* VectorStoreService.create_collection on server srv; fail names the client
\* operation that raises, if it is reached
create_collection(srv, collection_name, recreate, fail) ==
    IF fail = "get_collections"
    THEN [server |-> srv, raised |-> TRUE,
          ops |-> <<ClientOp("get_collections", collection_name, FALSE)>>]
    ELSE LET got == <<ClientOp("get_collections", collection_name, TRUE)>>
             exists == srv[collection_name].exists
         IN  IF exists /\ ~recreate
             THEN [server |-> srv, raised |-> FALSE, ops |-> got]
             ELSE IF exists /\ fail = "delete_collection"
             THEN [server |-> srv, raised |-> TRUE,
                   ops |-> got \o <<ClientOp("delete_collection",
                                             collection_name, FALSE)>>]
             ELSE LET deleted ==
                          IF exists
                          THEN <<ClientOp("delete_collection",
                                          collection_name, TRUE)>>
                          ELSE <<>>
                      after_delete ==
                          [srv EXCEPT ![collection_name] = AbsentCollection]
                  IN  IF fail = "create_collection"
                      THEN [server |-> after_delete, raised |-> TRUE,
                            ops |-> got \o deleted \o
                                    <<ClientOp("create_collection",
                                               collection_name, FALSE)>>]
                      ELSE [server |-> [after_delete EXCEPT
                                           ![collection_name] =
                                               EmptyCollection],
                            raised |-> FALSE,
                            ops |-> got \o deleted \o
                                    <<ClientOp("create_collection",
                                               collection_name, TRUE)>>]

InitCreate ==
    /\ ChunkIdle
    /\ ParseIdle
    /\ QueryIdle
    /\ uuid_next = 0
    /\ fpc = "called"
    /\ fargs \in [fn              : {"create_collection"},
                  server          : Servers,
                  collection_name : CollectionNames,
                  recreate        : BOOLEAN]
    /\ fresult = [server |-> fargs.server, calls |-> <<>>]

\* create_collection(collection_name, recreate=recreate) returns or raises;
\* the script may be run again with the same arguments
CreateCollectionReturns ==
    /\ fpc = "called"
    /\ Len(fresult.calls) < MaxCreates
    /\ \E fail \in CreateFailures :
          LET r == create_collection(fresult.server, fargs.collection_name,
                                     fargs.recreate, fail)
          IN  fresult' = [server |-> r.server,
                          calls  |-> Append(fresult.calls,
                                            [before |-> fresult.server,
                                             after  |-> r.server,
                                             ops    |-> r.ops,
                                             raised |-> r.raised])]
    /\ UNCHANGED <<fpc, fargs>>
    /\ OnlyCallRuns

NextCreate == CreateCollectionReturns

SpecCreate == InitCreate /\ [][NextCreate]_vars

(***************************************************************************)
(* upsert_chunks: validation, conversion to points, upload in batches.     *)
(* A chunk dictionary is a record with every field and the set `missing`   *)
(* of the keys it lacks; the value of a missing key is never read.         *)
(***************************************************************************)
required_fields ==
    {"chunk_id", "text", "embedding", "chapter", "section", "url_anchor"}

\* PointStruct(id=chunk["chunk_id"], vector=chunk["embedding"], payload=...)
PointStruct(chunk) ==
    [id          |-> chunk.chunk_id,
     vector      |-> chunk.embedding,
     text        |-> chunk.text,
     chapter     |-> chunk.chapter,
     section     |-> chunk.section,
     url_anchor  |-> chunk.url_anchor,
     token_count |-> chunk.token_count,
     chunk_index |-> chunk.chunk_index]

\* points[i:i + batch_size] for i in range(0, total_chunks, batch_size)
Batches(points, batch_size) ==
    [b \in 1..((Len(points) + batch_size - 1) \div batch_size) |->
        SubSeq(points, (b - 1) * batch_size + 1,
               Min(b * batch_size, Len(points)))]

RECURSIVE UpsertAll(_, _, _)
\* the collection after client.upsert of the first n batches, in order
UpsertAll(stored, batches, n) ==
    IF n = 0 THEN stored
    ELSE Upsert(UpsertAll(stored, batches, n - 1), batches[n])

\* variant of upsert_chunks that validates each batch just before it is sent
upsert_chunks_ValidatesPerBatch(stored, chunks_, batch_size, fail) ==
    LET batches == Batches([i \in 1..Len(chunks_) |-> PointStruct(chunks_[i])],
                           batch_size)
        bad     == {b \in DOMAIN batches :
                       \E i \in ((b - 1) * batch_size + 1)..
                                Min(b * batch_size, Len(chunks_)) :
                          chunks_[i].missing \cap required_fields # {}}
        stop    == {b \in DOMAIN batches : b \in bad \/ b = fail}
        sent    == IF stop = {} THEN Len(batches)
                   ELSE (CHOOSE b \in stop : \A c \in stop : b <= c) - 1
    IN  [points  |-> UpsertAll(stored, batches, sent),
         batches |-> SubSeq(batches, 1, sent),
         raised  |-> stop # {}]

\* VectorStoreService.upsert_chunks on a collection holding `stored`; fail
\* is the number of the batch whose client.upsert raises, 0 for none
upsert_chunks(stored, chunks_, batch_size, fail) ==
    IF chunks_ = <<>>
    THEN [points |-> stored, batches |-> <<>>, raised |-> FALSE]
    ELSE IF \E i \in DOMAIN chunks_ :
               chunks_[i].missing \cap required_fields # {}
    THEN [points |-> stored, batches |-> <<>>, raised |-> TRUE]
    ELSE LET batches ==
                 Batches([i \in 1..Len(chunks_) |-> PointStruct(chunks_[i])],
                         batch_size)
             sent    == IF fail \in DOMAIN batches THEN fail - 1
                        ELSE Len(batches)
         IN  [points  |-> UpsertAll(stored, batches, sent),
              batches |-> SubSeq(batches, 1, sent),
              raised  |-> fail \in DOMAIN batches]

(***************************************************************************)
(* The ingestion script: ingest_chapters over the chapter files of a       *)
(* directory, run once or several times over the same files.               *)
(***************************************************************************)
\* batch_size of upload_chunks
upload_batch_size == 100

\* chapter files: the sections parse_markdown_sections returns for them;
\* vectors[i] is the embedding of the chunk that starts at word i
Chapter3File ==
    [chapter  |-> 3,
     sections |-> <<[section_id |-> "3.1", tok |-> <<300>>,
                     sents |-> <<<<1>>>>, vectors |-> <<<<10, 0>>>>],
                    [section_id |-> "3.2", tok |-> <<300, 300>>,
                     sents |-> <<<<1>>, <<2>>>>,
                     vectors |-> <<<<6, 8>>, <<10, 0>>>>]>>]

Chapter4File ==
    [chapter  |-> 4,
     sections |-> <<[section_id |-> "4.1", tok |-> <<300>>,
                     sents |-> <<<<1>>>>, vectors |-> <<<<6, 8>>>>]>>]

\* sorted(chapters_dir.glob(pattern)) of the directories ingested
ChapterDirs == {<<Chapter3File>>, <<Chapter3File, Chapter4File>>}

\* where process_chapter may raise for one file: nowhere, in
\* parse_markdown_sections, in chunk_section of one section, in embed_batch
NoFailure == [at |-> "none", section |-> 0]

FailuresOf(file) ==
    {NoFailure, [at |-> "parse", section |-> 0],
     [at |-> "embed", section |-> 0]}
        \cup {[at |-> "chunk", section |-> k] : k \in DOMAIN file.sections}

\* the chunk dictionaries process_chapter builds for the chunks of a section
ChunkDicts(file, section, section_chunks) ==
    [i \in 1..Len(section_chunks) |->
        [chunk_id    |-> section_chunks[i].chunk_id,
         text        |-> section_chunks[i].text,
         embedding   |-> section.vectors[Head(section_chunks[i].text)],
         chapter     |-> file.chapter,
         section     |-> section.section_id,
         url_anchor  |-> section.section_id,
         token_count |-> section_chunks[i].token_count,
         chunk_index |-> section_chunks[i].chunk_index,
         missing     |-> {}]]

RECURSIVE ChunkSections(_, _, _, _, _)
\* `for section in sections` of chunk_textbook_chapter from section k on;
\* an exception of chunk_section leaves the function
ChunkSections(file, k, all_chunks, uuid0, fail) ==
    IF k > Len(file.sections)
    THEN [raised |-> FALSE, chunks |-> all_chunks, uuid_next |-> uuid0]
    ELSE IF fail.at = "chunk" /\ fail.section = k
    THEN [raised |-> TRUE, chunks |-> <<>>, uuid_next |-> uuid0]
    ELSE LET section == file.sections[k]
             r       == chunk_section(section.sents, section.tok, uuid0)
         IN  ChunkSections(file, k + 1,
                           all_chunks \o ChunkDicts(file, section, r.chunks),
                           r.uuid_next, fail)

\* process_chapter: chunk_textbook_chapter, embed_batch, chunk dictionaries
process_chapter(file, uuid0, fail) ==
    IF fail.at = "parse"
    THEN [raised |-> TRUE, chunks |-> <<>>, uuid_next |-> uuid0]
    ELSE LET r == ChunkSections(file, 1, <<>>, uuid0, fail)
         IN  IF fail.at = "embed"
             THEN [raised |-> TRUE, chunks |-> <<>>,
                   uuid_next |-> r.uuid_next]
             ELSE r

RECURSIVE ProcessFiles(_, _, _, _, _)
\* `for i, file_path in enumerate(chapter_files, 1)` from file k on, with
\* its try/except around process_chapter
ProcessFiles(files, k, all_chunks, uuid0, fails) ==
    IF k > Len(files)
    THEN [chunks |-> all_chunks, uuid_next |-> uuid0]
    ELSE LET r == process_chapter(files[k], uuid0, fails[k])
         IN  ProcessFiles(files, k + 1,
                          IF r.raised THEN all_chunks
                          ELSE all_chunks \o r.chunks,
                          r.uuid_next, fails)

\* ingest_chapters on a collection holding `stored`
ingest_chapters(files, stored, uuid0, fails) ==
    LET r == ProcessFiles(files, 1, <<>>, uuid0, fails)
    IN  [points    |-> upsert_chunks(stored, r.chunks, upload_batch_size,
                                     0).points,
         uploaded  |-> r.chunks,
         uuid_next |-> r.uuid_next]

InitIngest ==
    /\ ChunkIdle
    /\ ParseIdle
    /\ QueryIdle
    /\ uuid_next = 0
    /\ fpc = "called"
    /\ fargs \in [fn : {"ingest_chapters"}, files : ChapterDirs]
    /\ fresult = [points |-> {}, runs |-> <<>>]

\* one run of the script over the files returns; it may be run again
IngestReturns ==
    /\ fpc = "called"
    /\ Len(fresult.runs) < MaxRuns
    /\ \E fails \in {f \in [DOMAIN fargs.files ->
                               UNION {FailuresOf(fargs.files[k]) :
                                         k \in DOMAIN fargs.files}] :
                        \A k \in DOMAIN fargs.files :
                           f[k] \in FailuresOf(fargs.files[k])} :
          LET r == ingest_chapters(fargs.files, fresult.points, uuid_next,
                                   fails)
          IN  /\ fresult' = [points |-> r.points,
                             runs   |-> Append(fresult.runs,
                                               [fails    |-> fails,
                                                before   |-> fresult.points,
                                                uploaded |-> r.uploaded,
                                                after    |-> r.points])]
              /\ uuid_next' = r.uuid_next
    /\ UNCHANGED <<fpc, fargs>>
    /\ UNCHANGED <<chunkVars, parseVars, queryVars>>

NextIngest == IngestReturns

SpecIngest == InitIngest /\ [][NextIngest]_vars

(***************************************************************************)
(* The chunking of a selected text and the chunking of a section with the  *)
(* same content, side by side.                                             *)
(***************************************************************************)
\* raw texts: words with their token counts, cut into sentences
RawTexts ==
    UNION {{[tok |-> t, sents |-> s] : s \in Segmentations(Len(t))} :
              t \in SeqsUpTo(TokenSizes, MaxWords) \ {<<>>}}

InitSelectedChunks ==
    /\ ChunkIdle
    /\ ParseIdle
    /\ QueryIdle
    /\ uuid_next = 0
    /\ fpc = "called"
    /\ fargs \in [fn : {"chunk_selected_text"}, text : RawTexts]
    /\ fresult = <<>>

\* create_ephemeral_store(text) and chunk_section(section with content text)
\* return
SelectedChunksReturn ==
    /\ fpc = "called"
    /\ fargs.fn = "chunk_selected_text"
    /\ fpc' = "returned"
    /\ LET text_chunks == chunk_selected_text(fargs.text)
           ephemeral   == create_ephemeral_store(
                              text_chunks,
                              [i \in 1..Len(text_chunks) |-> <<10, 0>>])
           section     == chunk_section(fargs.text.sents, fargs.text.tok, 0)
       IN  fresult' = [ephemeral |-> [i \in 1..Len(ephemeral) |->
                                         ephemeral[i].text],
                       chunker   |-> [i \in 1..Len(section.chunks) |->
                                         section.chunks[i].text]]
    /\ UNCHANGED fargs
    /\ OnlyCallRuns

NextSelectedChunks == SelectedChunksReturn

SpecSelectedChunks == InitSelectedChunks /\ [][NextSelectedChunks]_vars

(***************************************************************************)
(* chunk_textbook_chapter on a chapter file with the headings "# Ch",      *)
(* "## 3.1" and "## 3.2": the parser runs line by line, then every section *)
(* it returned is chunked.                                                 *)
(***************************************************************************)
\* the documents: the three headings, with or without text under the first
\* two; the last text line is the body of "## 3.2"
ChapterDocs ==
    {<<Header(1), Header(2), TextLine, Header(2), TextLine>>,
     <<Header(1), TextLine, Header(2), TextLine, Header(2), TextLine>>,
     <<Header(1), Header(2), Header(2), TextLine>>,
     <<Header(1), BlankLine, Header(2), TextLine, BlankLine, Header(2),
       TextLine>>}

\* token counts of the words of the body
BodyWordSizes == {150, 300, 450, 900}

\* the divisions of the 900 tokens of the body into words and sentences
Bodies ==
    UNION {{[tok |-> t, sents |-> s] : s \in Segmentations(Len(t))} :
              t \in {u \in SeqsUpTo(BodyWordSizes, MaxWords) :
                        u # <<>> /\ count_tokens(ContentWords(u), u) = 900}}

InitChapter ==
    /\ lines \in ChapterDocs
    /\ chapter = 3
    /\ ppc = "lines"
    /\ li = 0
    /\ current_section = <<>>
    /\ current_content = <<>>
    /\ section_counters = [k \in 1..6 |-> 0]
    /\ sections = <<>>
    /\ ChunkIdle
    /\ uuid_next = 0
    /\ QueryIdle
    /\ fpc = "called"
    /\ fargs \in [fn : {"chunk_textbook_chapter"}, body : Bodies]
    /\ fresult = <<>>

\* section.content of a parsed section: the body under the last heading,
\* one sentence of 300 tokens under the others
ContentOf(section) ==
    IF \A p \in DOMAIN lines : lines[p].kind = "header" => p <= section.line
    THEN fargs.body
    ELSE [tok |-> <<300>>, sents |-> <<<<1>>>>]

RECURSIVE ChunkChapter(_, _, _)
\* `for section in sections` of chunk_textbook_chapter from section k on;
\* chunk_section tags every chunk with the section's chapter and section_id
ChunkChapter(k, all_chunks, uuid0) ==
    IF k > Len(sections)
    THEN [chunks |-> all_chunks, uuid_next |-> uuid0]
    ELSE LET section == sections[k]
             r       == chunk_section(ContentOf(section).sents,
                                      ContentOf(section).tok, uuid0)
         IN  ChunkChapter(
                 k + 1,
                 all_chunks \o
                     [i \in 1..Len(r.chunks) |->
                         [chunk_id    |-> r.chunks[i].chunk_id,
                          text        |-> r.chunks[i].text,
                          token_count |-> r.chunks[i].token_count,
                          chunk_index |-> r.chunks[i].chunk_index,
                          chapter     |-> section.chapter,
                          section     |-> section.section_id,
                          line        |-> section.line]],
                 r.uuid_next)

\* chunk_textbook_chapter returns once parse_markdown_sections has
ChunkChapterReturns ==
    /\ ppc = "done"
    /\ fpc = "called"
    /\ fargs.fn = "chunk_textbook_chapter"
    /\ fpc' = "returned"
    /\ LET r == ChunkChapter(1, <<>>, uuid_next)
       IN  /\ fresult' = r.chunks
           /\ uuid_next' = r.uuid_next
    /\ UNCHANGED <<fargs, chunkVars, parseVars, queryVars>>

NextChapter ==
    \/ ParseHeader
    \/ ParseText
    \/ ParseReturn
    \/ ChunkChapterReturns

SpecChapter == InitChapter /\ [][NextChapter]_vars

(***************************************************************************)
(* The embedding service singleton and its module-level cache, as the      *)
(* request handlers use them: embed_text for a query, embed_texts for the  *)
(* chunks of a selected text.                                              *)
(***************************************************************************)
QueryTexts == {"what is zmp", "what is pid", "what is slam"}

\* hashlib.md5(text.encode()).hexdigest()
_hash_text(text) ==
    CASE text = "what is zmp"  -> "14495de418b571e3d695961f00f8c73a"
      [] text = "what is pid"  -> "2d700f6f25b4bc64eb2b6bf76e1a4ea9"
      [] text = "what is slam" -> "7818b43dedd93db7a7270b295272e927"

\* self.model.encode(text, normalize_embeddings=normalize)
encode(text, normalize) ==
    LET unit == CASE text = "what is zmp"  -> <<10, 0>>
                  [] text = "what is pid"  -> <<6, 8>>
                  [] text = "what is slam" -> <<-10, 0>>
    IN  IF normalize THEN unit ELSE <<2 * unit[1], 2 * unit[2]>>

\* embed called with one string: result = [embedding, cache]
embed(cache, text, normalize, cache_enabled) ==
    IF cache_enabled /\ _hash_text(text) \in DOMAIN cache
    THEN [embedding |-> cache[_hash_text(text)], cache |-> cache]
    ELSE [embedding |-> encode(text, normalize),
          cache     |-> IF cache_enabled
                        THEN [k \in DOMAIN cache \cup {_hash_text(text)} |->
                                 IF k = _hash_text(text)
                                 THEN encode(text, normalize)
                                 ELSE cache[k]]
                        ELSE cache]

\* embed called with a list of strings: the cache is neither read nor
\* written
embed_list(cache, texts, normalize) ==
    [embedding |-> [i \in DOMAIN texts |-> encode(texts[i], normalize)],
     cache     |-> cache]

\* after startup: the singleton exists (cache_enabled=True), the cache is
\* the empty dict
InitEmbed ==
    /\ ChunkIdle
    /\ ParseIdle
    /\ QueryIdle
    /\ uuid_next = 0
    /\ fpc = "called"
    /\ fargs \in [fn : {"embed_text"}, cache_enabled : {TRUE}]
    /\ fresult = [cache |-> <<>>, calls |-> <<>>]

\* a request handler calls embed_text(query, normalize=True)
EmbedTextReturns ==
    /\ fargs.fn = "embed_text"
    /\ Len(fresult.calls) < MaxEmbeds
    /\ \E text \in QueryTexts :
          LET r == embed(fresult.cache, text, TRUE, fargs.cache_enabled)
          IN  fresult' = [cache |-> r.cache,
                          calls |-> Append(fresult.calls,
                                           [text      |-> <<text>>,
                                            embedding |-> <<r.embedding>>])]
    /\ UNCHANGED <<fpc, fargs>>
    /\ OnlyCallRuns

\* a selected-text handler calls embed_texts(text_chunks, normalize=True)
EmbedTextsReturns ==
    /\ fargs.fn = "embed_text"
    /\ Len(fresult.calls) < MaxEmbeds
    /\ \E texts \in {<<"what is zmp">>, <<"what is pid", "what is zmp">>} :
          LET r == embed_list(fresult.cache, texts, TRUE)
          IN  fresult' = [cache |-> r.cache,
                          calls |-> Append(fresult.calls,
                                           [text      |-> texts,
                                            embedding |-> r.embedding])]
    /\ UNCHANGED <<fpc, fargs>>
    /\ OnlyCallRuns

NextEmbed ==
    \/ EmbedTextReturns
    \/ EmbedTextsReturns

SpecEmbed == InitEmbed /\ [][NextEmbed]_vars

(***************************************************************************)
(* The search of an ephemeral store called with any top_k an `int` setting *)
(* can hold, the negative ones included (retrieval_top_k has no            *)
(* validator).                                                             *)
(***************************************************************************)
InitSlice ==
    /\ ChunkIdle
    /\ ParseIdle
    /\ QueryIdle
    /\ uuid_next = 0
    /\ fpc = "called"
    /\ fargs \in [fn              : {"EphemeralVectorStore.search"},
                  chunks          : EphemeralStores,
                  query_embedding : QueryVectors,
                  top_k           : (-1)..MaxCandidates,
                  score_threshold : ScoreThresholds]
    /\ fresult = <<>>

NextSlice == EphemeralSearchReturns

SpecSlice == InitSlice /\ [][NextSlice]_vars

(***************************************************************************)
(* upsert_chunks called on its own                                         *)
(***************************************************************************)
\* chunk dictionaries: two complete ones, one that lacks an optional key,
\* two that lack a required key
UpsertChunkDicts ==
    LET dict(n, vector, lacks) ==
            [chunk_id    |-> Uuid4Str(n),
             text        |-> <<n>>,
             embedding   |-> vector,
             chapter     |-> 3,
             section     |-> "3.2",
             url_anchor  |-> "3.2",
             token_count |-> 300,
             chunk_index |-> 0,
             missing     |-> lacks]
    IN  {dict(1, <<10, 0>>, {}), dict(2, <<6, 8>>, {}),
         dict(3, <<10, 0>>, {"source_file"}),
         dict(4, <<6, 8>>, {"url_anchor"}),
         dict(5, <<6, 8>>, {"embedding", "text"})}

InitUpsert ==
    /\ ChunkIdle
    /\ ParseIdle
    /\ QueryIdle
    /\ uuid_next = 0
    /\ fpc = "called"
    /\ fargs \in [fn         : {"upsert_chunks"},
                  stored     : {{}, {PointStruct(d) : d \in
                                       {c \in UpsertChunkDicts :
                                           c.text = <<1>>}}},
                  chunks     : SeqsUpTo(UpsertChunkDicts, MaxUpserted),
                  batch_size : 1..2,
                  fail       : 0..2]
    /\ fresult = <<>>

\* upsert_chunks(chunks, batch_size=batch_size) returns or raises
UpsertChunksReturns ==
    /\ fpc = "called"
    /\ fargs.fn = "upsert_chunks"
    /\ fpc' = "returned"
    /\ fresult' = upsert_chunks(fargs.stored, fargs.chunks, fargs.batch_size,
                                fargs.fail)
    /\ UNCHANGED fargs
    /\ OnlyCallRuns

NextUpsert == UpsertChunksReturns

SpecUpsert == InitUpsert /\ [][NextUpsert]_vars

SpecQuery == InitQuery /\ [][NextQuery]_vars

\* one request arrives, under every configuration of the deployment
InitRequest ==
    /\ ChunkIdle
    /\ ParseIdle
    /\ CallIdle
    /\ uuid_next = 0
    /\ settings \in [retrieval_top_k : TopKs, debug : BOOLEAN,
                     environment : Environments]
    /\ collection = {}
    /\ qdrant_log = {}
    /\ ingests = 0
    /\ rpc = [q \in Requests |-> IF q = 1 THEN "new" ELSE "unused"]
    /\ mode = [q \in Requests |-> "none"]
    /\ qvec = [q \in Requests |-> <<0, 0>>]
    /\ store = [q \in Requests |-> <<>>]
    /\ built = [q \in Requests |-> <<>>]
    /\ context = [q \in Requests |-> <<>>]
    /\ response = [q \in Requests |-> NoResponse]
    /\ steps = [q \in Requests |-> <<>>]
    /\ nhits = [q \in Requests |-> -1]
    /\ exc = [q \in Requests |-> NoException]

SpecRequest == InitRequest /\ [][NextQuery]_vars

\* the handler of request q moves on: from its start to the await of the
\* LLM or to its return, from the await to its return
HandlerStep(q) ==
    /\ rpc[q] \in {"new", "awaiting_llm"}
    /\ \E to \in {"awaiting_llm", "done"} :
          /\ to # rpc[q]
          /\ rpc' = [rpc EXCEPT ![q] = to]

\* the event loop runs the handler of a request that arrived, and the call
\* of the LLM returns or raises
FairSpecRequest ==
    /\ SpecRequest
    /\ \A q \in Requests : WF_rpc(HandlerStep(q))

SpecParse == InitParse /\ [][NextParse]_vars

SpecChunk == InitChunk /\ [][NextChunk]_vars

\* every loop iteration of the chunker is eventually executed
FairSpecChunk == SpecChunk /\ WF_vars(NextChunk)

(***************************************************************************)
(* Properties of the chunker                                               *)
(***************************************************************************)
ChunkTexts == [k \in 1..Len(chunks) |-> chunks[k].text]

Undersized(k) == count_tokens(chunks[k].text, tok) < MIN_CHUNK_TOKENS

\* C1: every passage returned by chunk_section has at most MAX_CHUNK_TOKENS
\* tokens, counted on its final text.
C1_TokenCeiling ==
    cpc = "done" =>
        \A k \in 1..Len(chunks) :
            /\ chunks[k].token_count = count_tokens(chunks[k].text, tok)
            /\ chunks[k].token_count <= MAX_CHUNK_TOKENS

\* C2 (as stated): every returned passage except possibly the last one has
\* at least MIN_CHUNK_TOKENS tokens.
C2_MinTokensExceptLast ==
    cpc = "done" =>
        \A k \in 1..(Len(chunks) - 1) : ~Undersized(k)

\* C2 (amended): a returned passage below MIN_CHUNK_TOKENS is either the
\* first passage of the section or one whose text merged with the passage
\* before it would exceed MAX_CHUNK_TOKENS; it need not be the last one.
C2_UndersizedOnlyIfUnmergeable ==
    cpc = "done" =>
        \A k \in 1..Len(chunks) :
            Undersized(k) =>
                \/ k = 1
                \/ count_tokens(chunks[k - 1].text \o chunks[k].text, tok)
                       > MAX_CHUNK_TOKENS

\* an undersized passage after a failed merge that is not the last passage
C2_Witness ==
    /\ cpc = "done"
    /\ \E k \in 2..(Len(chunks) - 1) : Undersized(k)

\* C3: the chunk_index values of the returned passages are 0, 1, ..., n-1 in
\* output order.
C3_ContiguousIndex ==
    cpc = "done" =>
        \A k \in 1..Len(chunks) : chunks[k].chunk_index = k - 1

C5_TerminatesNonEmpty == <>(cpc = "done" /\ Len(chunks) >= 1)

\* a section that went through the sentence loop and the merge loop
C5_Witness ==
    /\ cpc = "done"
    /\ Len(chunks) >= 1
    /\ Len(chunk_texts) >= 2

(***************************************************************************)
(* Properties of the section parser                                        *)
(***************************************************************************)
IsHeaderAt(q, d) == lines[q].kind = "header" /\ lines[q].level = d

\* the number of depth-d headers among lines 1..p that no header of a
\* smaller depth follows within 1..p
HeadersSinceShallower(p, d) ==
    Cardinality({q \in 1..p :
        /\ IsHeaderAt(q, d)
        /\ \A r \in (q + 1)..p :
              lines[r].kind = "header" => lines[r].level >= d})

\* the sections created so far: the returned ones and the current one
CreatedSections ==
    {sections[i] : i \in 1..Len(sections)}
        \cup {current_section[i] : i \in 1..Len(current_section)}

\* the identifier that tells a section of depth >= 2 from its siblings
FullId(s) == IF s.level >= 3 THEN s.subsection_id ELSE s.section_id

\* C6 (as stated): the section_id values of the returned sections are
\* pairwise distinct.
C6_UniqueSectionIds ==
    ppc = "done" =>
        \A i, j \in 1..Len(sections) :
            i # j => sections[i].section_id # sections[j].section_id

\* C6 (amended): among the returned sections of depth >= 2 that no depth-1
\* header separates, the identifiers (section_id at depth 2, subsection_id
\* at depth >= 3) are pairwise distinct.
C6_UniqueFullIdsUnderOneTitle ==
    ppc = "done" =>
        \A i, j \in 1..Len(sections) :
            /\ i < j
            /\ sections[i].level >= 2
            /\ sections[j].level >= 2
            /\ \A r \in sections[i].line..sections[j].line :
                  ~IsHeaderAt(r, 1)
            => FullId(sections[i]) # FullId(sections[j])

\* two sibling sections of depth 3 under the same depth-2 section: they
\* share section_id and differ in subsection_id
C6_Witness ==
    /\ ppc = "done"
    /\ \E i, j \in 1..Len(sections) :
          /\ i < j
          /\ sections[i].level = 3
          /\ sections[j].level = 3
          /\ sections[i].section_id = sections[j].section_id
          /\ \A r \in sections[i].line..sections[j].line :
                lines[r].kind = "header" => lines[r].level >= 3

\* C7: counter[d] is the number of depth-d headers since the last header of
\* a smaller depth; a section gets section_id "{chapter}" at depth 1 and
\* "{chapter}.{counter[2]}" at depth >= 2, and subsection_id
\* "{chapter}.{counter[2]}. ... .{counter[d]}" at depth d >= 3, None above.
C7_CountersAndIds ==
    /\ ppc # "idle" =>
          \A d \in 1..6 : section_counters[d] = HeadersSinceShallower(li, d)
    /\ \A s \in CreatedSections :
          /\ s.section_id =
                IF s.level = 1 THEN ToString(s.chapter)
                ELSE ToString(s.chapter) \o "."
                         \o ToString(HeadersSinceShallower(s.line, 2))
          /\ s.subsection_id =
                IF s.level <= 2 THEN None
                ELSE ToString(s.chapter) \o "."
                         \o DottedJoin([k \in 1..(s.level - 1) |->
                                HeadersSinceShallower(s.line, k + 1)])

\* chapter 3: the depth-4 header below the first depth-3 header of the
\* second depth-2 section
C7_Witness ==
    /\ ppc = "done"
    /\ \E i \in 1..Len(sections) :
          /\ sections[i].level = 4
          /\ sections[i].section_id = "3.2"
          /\ sections[i].subsection_id = "3.2.1.1"

(***************************************************************************)
(* Properties of the two identifier namespaces and of the isolation of     *)
(* selected-text queries                                                   *)
(***************************************************************************)
Digit(d) == SubSeq("0123456789", d + 1, d + 1)

\* C8: the identifier of the chunk at position n of an ephemeral index is
\* "selected-" followed by the three decimal digits of n, the identifiers
\* of one ephemeral index are pairwise distinct, and no identifier of a
\* point of the persistent collection starts with "selected-".
C8_IdNamespaces ==
    /\ \A q \in Requests : \A i \in DOMAIN built[q] :
          LET n == i - 1
          IN  /\ built[q][i].chunk_index = n
              /\ built[q][i].chunk_id =
                    "selected-" \o Digit(n \div 100)
                                \o Digit((n \div 10) % 10) \o Digit(n % 10)
              /\ \A j \in DOMAIN built[q] :
                    i # j => built[q][i].chunk_id # built[q][j].chunk_id
    /\ \A p \in collection : ~startswith(p.id, "selected-")

\* an ephemeral index of several chunks exists next to a populated
\* persistent collection
C8_Witness ==
    /\ collection # {}
    /\ \E q \in Requests : Len(built[q]) >= 2

\* citation c is the citation of chunk e of an ephemeral index searched
\* with query_embedding
CitesChunk(c, e, query_embedding) ==
    /\ c.chunk_id = e.chunk_id
    /\ c.text_preview = SubSeq(e.text, 1, Len(c.text_preview))
    /\ c.text_preview # <<>>
    /\ c.relevance_score = Dot(query_embedding, e.embedding)

\* C9: every citation returned by a selected-text request has an identifier
\* starting with "selected-" and is the citation of a chunk of the
\* ephemeral index that this request built, for every answer of the LLM.
C9_SelectedCitationsFromOwnIndex ==
    \A q \in Requests :
        (rpc[q] = "done" /\ mode[q] = "selected-text") =>
            \A i \in DOMAIN response[q].citations :
                LET c == response[q].citations[i]
                IN  /\ startswith(c.chunk_id, "selected-")
                    /\ \E j \in DOMAIN built[q] :
                          CitesChunk(c, built[q][j], qvec[q])

\* two selected-text requests over different ephemeral indexes were
\* answered, one with several citations, while the persistent collection
\* holds passages
C9_Witness ==
    \E q, r \in Requests :
        /\ q # r
        /\ mode[q] = "selected-text" /\ mode[r] = "selected-text"
        /\ response[q].outcome = "answered"
        /\ response[r].outcome = "answered"
        /\ Len(response[q].citations) >= 2
        /\ built[q] # built[r]
        /\ collection # {}

\* C10: a step of a selected-text request, whatever its outcome, invokes
\* no operation of the persistent index and leaves its contents unchanged;
\* hence every operation on record was invoked by ingestion or by a
\* global request.
C10_SelectedLeavesIndexAlone ==
    /\ [](\A e \in qdrant_log :
             e.by \in Requests => mode[e.by] = "global")
    /\ [][\A q \in Requests :
             (rpc'[q] # rpc[q] /\ mode'[q] = "selected-text") =>
                 /\ collection' = collection
                 /\ qdrant_log' = qdrant_log]_vars

\* a selected-text request ended with an error next to a populated
\* collection that a global request has searched
C10_Witness ==
    \E q, r \in Requests :
        /\ mode[q] = "selected-text"
        /\ rpc[q] = "done"
        /\ response[q].outcome = "error"
        /\ mode[r] = "global"
        /\ [op |-> "search", by |-> r] \in qdrant_log
        /\ collection # {}

MarkersOf(text) ==
    {text[i] : i \in {j \in DOMAIN text :
                         text[j].word \in {"Chapter", "chapter"}}}

\* candidate c is named by marker m
Named(c, m) ==
    /\ c.chapter = m.chapter
    /\ m.section = None \/ c.section = m.section

\* the candidates of the call that some marker of the answer names
NamedCandidates ==
    {i \in DOMAIN fargs.chunks :
        \E m \in MarkersOf(fargs.answer) : Named(fargs.chunks[i], m)}

BindReturned == fpc = "returned" /\ fargs.fn = "_extract_citations"

\* C12: when markers of the answer name candidates, the binder cites
\* exactly the candidates that a marker names: those of chapter C and
\* section S for "[Chapter C, Section S]", those of chapter C for
\* "[Chapter C]", in any letter case.
C12_CitesExactlyNamedCandidates ==
    (BindReturned /\ NamedCandidates # {}) =>
        {fresult[i].chunk_id : i \in DOMAIN fresult}
            = {fargs.chunks[i].chunk_id : i \in NamedCandidates}

\* the answer "[Chapter 3, Section 3.2]" with a candidate of chapter 3,
\* section 3.2 and a candidate of chapter 4 gave one citation, of the first
C12_Witness ==
    /\ BindReturned
    /\ fargs.answer = <<Piece("Chapter", 3, "3.2")>>
    /\ Len(fargs.chunks) = 2
    /\ fargs.chunks[1].chapter = 3 /\ fargs.chunks[1].section = "3.2"
    /\ fargs.chunks[2].chapter = 4
    /\ Len(fresult) = 1
    /\ fresult[1].chunk_id = fargs.chunks[1].chunk_id

\* the candidate list of the call is in order of non-increasing score, as
\* both searches deliver it
Ranked ==
    \A i \in 1..(Len(fargs.chunks) - 1) :
        fargs.chunks[i].score >= fargs.chunks[i + 1].score

\* every cited candidate has a score no smaller than every candidate that
\* is not cited
CitedAreBest ==
    \A i \in DOMAIN fresult : \A j \in DOMAIN fargs.chunks :
        (\A k \in DOMAIN fresult :
            fresult[k].chunk_id # fargs.chunks[j].chunk_id)
            => fresult[i].relevance_score >= fargs.chunks[j].score

\* C13 as stated: when no marker names a candidate and there are
\* candidates, the binder returns min(3, n) citations and they are the
\* candidates with the highest scores, whatever the order of the list.
C13_FallbackTopThreeByScore ==
    (BindReturned /\ NamedCandidates = {} /\ fargs.chunks # <<>>) =>
        /\ Len(fresult) = Min(3, Len(fargs.chunks))
        /\ CitedAreBest

\* C13: when no marker names a candidate and there are candidates, the
\* binder returns min(3, n) citations, of the first min(3, n) candidates
\* of the list; they are the candidates with the highest scores when the
\* list is in order of non-increasing score.
C13_FallbackFirstThree ==
    (BindReturned /\ NamedCandidates = {} /\ fargs.chunks # <<>>) =>
        /\ Len(fresult) = Min(3, Len(fargs.chunks))
        /\ {fresult[i].chunk_id : i \in DOMAIN fresult}
              = {fargs.chunks[i].chunk_id :
                    i \in 1..Min(3, Len(fargs.chunks))}
        /\ Ranked => CitedAreBest

\* an answer without any marker and four ranked candidates, the last with
\* a smaller score than the third, gave three citations
C13_Witness ==
    /\ BindReturned
    /\ MarkersOf(fargs.answer) = {}
    /\ Len(fargs.chunks) = 4
    /\ Ranked
    /\ fargs.chunks[3].score > fargs.chunks[4].score
    /\ Len(fresult) = 3

\* the dedup key of a citation or of a candidate
CiteKey(x) == <<x.chunk_id, x.chapter, x.section>>

\* C15: the binder never returns two citations with the same
\* (chunk_id, chapter, section), also when several markers or a repeated
\* marker name the same candidate, and the chunk_id, chapter, section and
\* relevance_score of every citation are those of one candidate.
C15_NoDuplicateCitations ==
    BindReturned =>
        /\ \A i, j \in DOMAIN fresult :
              i # j => CiteKey(fresult[i]) # CiteKey(fresult[j])
        /\ \A i \in DOMAIN fresult : \E k \in DOMAIN fargs.chunks :
              /\ CiteKey(fresult[i]) = CiteKey(fargs.chunks[k])
              /\ fresult[i].relevance_score = fargs.chunks[k].score

\* the same marker occurs twice in the answer and names two candidates,
\* each cited once
C15_Witness ==
    /\ BindReturned
    /\ Len(fargs.answer) = 2
    /\ fargs.answer[1] = fargs.answer[2]
    /\ Cardinality(NamedCandidates) = 2
    /\ Len(fresult) = 2

\* position in the candidate list of the candidate that citation c cites
CandidateOf(c) ==
    CHOOSE k \in DOMAIN fargs.chunks : fargs.chunks[k].chunk_id = c.chunk_id

\* the citations are in order of non-increasing relevance_score
SortedByScore ==
    \A i \in 1..(Len(fresult) - 1) :
        fresult[i].relevance_score >= fresult[i + 1].relevance_score

\* C16 as stated: the citations are sorted by descending relevance_score
\* and citations of equal score are in the order of their candidates.
C16_SortedTiesInCandidateOrder ==
    BindReturned =>
        /\ SortedByScore
        /\ \A i, j \in DOMAIN fresult :
              (i < j /\ fresult[i].relevance_score
                            = fresult[j].relevance_score)
                  => CandidateOf(fresult[i]) < CandidateOf(fresult[j])

\* position in the answer of the first marker that names candidate k
FirstMarker(k) ==
    LET naming == {j \in DOMAIN fargs.answer :
                      /\ fargs.answer[j].word \in {"Chapter", "chapter"}
                      /\ Named(fargs.chunks[k], fargs.answer[j])}
    IN  CHOOSE j \in naming : \A h \in naming : j <= h

\* candidate a is cited before candidate b by the loops of the binder
CitedBefore(a, b) ==
    IF NamedCandidates = {} THEN a < b
    ELSE \/ FirstMarker(a) < FirstMarker(b)
         \/ FirstMarker(a) = FirstMarker(b) /\ a < b

\* C16: the citations are sorted by descending relevance_score, and
\* citations of equal score are in the order in which they were created:
\* by the first marker of the answer that names their candidate, then by
\* candidate order.
C16_SortedTiesInCitationOrder ==
    BindReturned =>
        /\ SortedByScore
        /\ \A i, j \in DOMAIN fresult :
              (i < j /\ fresult[i].relevance_score
                            = fresult[j].relevance_score)
                  => CitedBefore(CandidateOf(fresult[i]),
                                 CandidateOf(fresult[j]))

\* three citations: two of equal score, in the order of the markers that
\* name them and against the order of their candidates, before one of a
\* smaller score
C16_Witness ==
    /\ BindReturned
    /\ Len(fresult) = 3
    /\ fresult[1].relevance_score = fresult[2].relevance_score
    /\ fresult[2].relevance_score > fresult[3].relevance_score
    /\ CandidateOf(fresult[1]) > CandidateOf(fresult[2])
    /\ NamedCandidates # {}
    /\ FirstMarker(CandidateOf(fresult[1]))
          < FirstMarker(CandidateOf(fresult[2]))

(***************************************************************************)
(* Properties of the requests                                              *)
(***************************************************************************)
Answered(q) == rpc[q] = "done" /\ response[q].outcome = "answered"

\* C14: the binder is only called with a non-empty candidate list, and every
\* request that is answered, global or selected-text (after the prefix
\* filter), returns at least one citation, whatever the LLM answered.
C14_AnsweredHasCitations ==
    /\ \A q \in Requests : rpc[q] = "awaiting_llm" => context[q] # <<>>
    /\ \A q \in Requests : Answered(q) => response[q].citations # <<>>

\* a global request and a selected-text request were both answered
C14_Witness ==
    \E q, r \in Requests :
        /\ Answered(q) /\ mode[q] = "global"
        /\ Answered(r) /\ mode[r] = "selected-text"

\* the search of request q ran and returned no result
NoHits(q) == nhits[q] = 0

\* C17: a request whose search returns no result is over: it returned, as a
\* normal response (status 200, no error, no exception caught), the fixed
\* "not found" answer of its route with an empty citation list, and it
\* invoked neither the LLM nor the citation binder.  Both routes.
C17_NoHitsIsNotFound ==
    \A q \in Requests :
        NoHits(q) =>
            /\ rpc[q] = "done"
            /\ response[q].status = 200
            /\ response[q].by = "route"
            /\ response[q].error = None
            /\ response[q].answer = IF mode[q] = "global" THEN NotFoundInBook
                                    ELSE NotFoundInSelection
            /\ response[q].citations = <<>>
            /\ exc[q] = NoException
            /\ \A i \in DOMAIN steps[q] : steps[q][i] \notin {"generate", "bind"}

\* a global request and a selected-text request both found nothing, the
\* selected-text one in an index that holds chunks
C17_Witness ==
    \E q, r \in Requests :
        /\ NoHits(q) /\ mode[q] = "global"
        /\ NoHits(r) /\ mode[r] = "selected-text" /\ built[r] # <<>>

(***************************************************************************)
(* Properties of one request                                               *)
(***************************************************************************)
\* the steps of the pipeline, in the order of the state machine
Pipeline == <<"validate", "embed_query", "search", "generate", "bind">>

\* the pipeline steps request q invoked so far, in the order of invocation
\* (building the index of a selection is not one of them)
PipelineSteps(q) ==
    SelectSeq(steps[q], LAMBDA step : \E i \in DOMAIN Pipeline :
                                         Pipeline[i] = step)

InvokedStep(q, step) == \E i \in DOMAIN steps[q] : steps[q][i] = step

Terminal(q) ==
    /\ rpc[q] = "done"
    /\ response[q].outcome \in {"answered", "not_found", "invalid", "error"}

\* C18: the pipeline steps a request invoked are a prefix of Validate,
\* Embed-Query, Search, Generate, Bind-Citations (so they run in this order
\* and each at most once, also after a failure); Generate is invoked only
\* after the search returned a hit and Bind-Citations only when the call of
\* the LLM did not raise; a request that fails validation invokes nothing
\* else; the handler of a request that has not returned can always move
\* on, and every request that arrived returns, with one outcome that does
\* not change afterwards.
C18_StepsInOrderOnceToOneOutcome ==
    /\ [](\A q \in Requests :
             /\ Len(PipelineSteps(q)) <= Len(Pipeline)
             /\ PipelineSteps(q) = SubSeq(Pipeline, 1, Len(PipelineSteps(q)))
             /\ InvokedStep(q, "generate") => nhits[q] >= 1
             /\ InvokedStep(q, "bind") => exc[q].at # "generate"
             /\ exc[q].at = "generate" => ~InvokedStep(q, "bind")
             /\ response[q].outcome = "invalid" => steps[q] = <<"validate">>
             /\ rpc[q] = "done" => Terminal(q)
             /\ rpc[q] = "new" => ENABLED GlobalStart(q)
             /\ rpc[q] = "awaiting_llm" => ENABLED LLMFails(q))
    /\ [][\A q \in Requests :
             rpc[q] = "done" =>
                 rpc'[q] = "done" /\ response'[q] = response[q]]_vars
    /\ \A q \in Requests : (rpc[q] = "new") ~> Terminal(q)

\* a request whose call of the LLM raised returned an error, having
\* invoked every step but the binder
C18_Witness ==
    \E q \in Requests :
        /\ Terminal(q)
        /\ exc[q].at = "generate"
        /\ PipelineSteps(q) = SubSeq(Pipeline, 1, 4)

\* the step of request q that raised is one of the three that call a
\* service: the embedding of the query, the search, the LLM
ServiceFailed(q) == exc[q].at \in {"embed_query", "search", "generate"}

\* C19: a request whose Embed-Query, Search or Generate step raised returns
\* an error of the "service unavailable" class (status 503), built by its
\* own route handler, whatever the text of the exception and whichever step
\* raised.
C19_ServiceFailureIsServiceUnavailable ==
    \A q \in Requests :
        ServiceFailed(q) =>
            /\ rpc[q] = "done"
            /\ response[q].outcome = "error"
            /\ response[q].status = 503
            /\ response[q].by = "route"

\* the handler of request q caught an exception
Failed(q) == exc[q].at # "none"

\* the `message` values that expose no exception text
UserSafeMessages == {None, "An unexpected error occurred"}

\* C20: with settings.environment = "production", the error a failed
\* request returns carries no exception text, whatever the other settings
\* are: its message is absent or the fixed one.
C20_ProductionHidesExceptionText ==
    \A q \in Requests :
        (settings.environment = "production" /\ Failed(q)) =>
            /\ response[q].outcome = "error"
            /\ response[q].message \in UserSafeMessages
            /\ ~Contains(response[q].message, exc[q].text)

(***************************************************************************)
(* Properties of create_collection                                         *)
(***************************************************************************)
Issued(call, op) == \E i \in DOMAIN call.ops : call.ops[i].op = op

\* C21: a call of create_collection with recreate=false on a collection that
\* exists issues neither a delete nor a create and leaves every collection
\* as it was, so the calls after the first that returned change nothing; a
\* delete is issued only with recreate=true, on the named collection, which
\* existed; a delete that went through is followed at once by the creation
\* of that collection, which is empty when the creation returns; no other
\* collection is touched.
C21_CreateIdempotentUnlessRecreate ==
    fargs.fn = "create_collection" =>
        LET name == fargs.collection_name
        IN  /\ \A k \in DOMAIN fresult.calls :
                  LET call == fresult.calls[k]
                  IN  /\ (call.before[name].exists /\ ~fargs.recreate) =>
                            /\ ~Issued(call, "delete_collection")
                            /\ ~Issued(call, "create_collection")
                            /\ call.after = call.before
                      /\ Issued(call, "delete_collection") =>
                            fargs.recreate /\ call.before[name].exists
                      /\ \A i \in DOMAIN call.ops :
                            /\ call.ops[i].name = name
                            /\ (call.ops[i].op = "delete_collection"
                                   /\ call.ops[i].ok) =>
                                  /\ i + 1 \in DOMAIN call.ops
                                  /\ call.ops[i + 1].op = "create_collection"
                                  /\ call.ops[i + 1].ok =>
                                        call.after[name] = EmptyCollection
                      /\ \A other \in CollectionNames \ {name} :
                            call.after[other] = call.before[other]
            /\ \A j, k \in DOMAIN fresult.calls :
                  (~fargs.recreate /\ j < k /\ ~fresult.calls[j].raised) =>
                      fresult.calls[k].after = fresult.calls[j].after

\* create_collection with recreate=false was called twice on a collection
\* that held a point, and both calls returned
C21_Witness ==
    /\ fargs.fn = "create_collection"
    /\ ~fargs.recreate
    /\ Len(fresult.calls) = 2
    /\ fresult.calls[1].before[fargs.collection_name].points # {}
    /\ ~fresult.calls[1].raised
    /\ ~fresult.calls[2].raised

(***************************************************************************)
(* Properties of the ingestion script                                      *)
(***************************************************************************)
\* run k of the script processed every file without an exception
CleanRun(k) ==
    \A f \in DOMAIN fresult.runs[k].fails :
        fresult.runs[k].fails[f] = NoFailure

\* the identifiers of a set of points
IdsOf(points) == {p.id : p \in points}

\* C22: when the script runs again over the same files, every record it
\* upserts takes the place of a record of the run before (same id), so the
\* collection holds as many points after the second run as after the first.
C22_ReingestionReplacesById ==
    fargs.fn = "ingest_chapters" =>
        \A k \in DOMAIN fresult.runs :
            (k > 1 /\ CleanRun(k - 1) /\ CleanRun(k)) =>
                /\ Cardinality(fresult.runs[k].after)
                      = Cardinality(fresult.runs[k - 1].after)
                /\ IdsOf(fresult.runs[k].after)
                      = IdsOf(fresult.runs[k - 1].after)

\* the sections of the files that run k had no failure in: every section of
\* a file that did not fail, and every section but the failing one of a
\* file whose chunking failed
SpareSections(k) ==
    {<<f, s>> \in (DOMAIN fargs.files) \X {1, 2} :
        /\ s \in DOMAIN fargs.files[f].sections
        /\ \/ fresult.runs[k].fails[f] = NoFailure
           \/ /\ fresult.runs[k].fails[f].at = "chunk"
              /\ fresult.runs[k].fails[f].section # s}

\* C23: in a run where parsing or chunking failed for some files or
\* sections, the passages of every section that did not fail, in the same
\* file or in another one, are uploaded and are in the collection.
C23_FailureSparesOtherSections ==
    fargs.fn = "ingest_chapters" =>
        \A k \in DOMAIN fresult.runs :
            (\A f \in DOMAIN fargs.files :
                fresult.runs[k].fails[f].at \in {"none", "parse", "chunk"})
            => \A fs \in SpareSections(k) :
                  LET file    == fargs.files[fs[1]]
                      section == file.sections[fs[2]]
                  IN  /\ \E i \in DOMAIN fresult.runs[k].uploaded :
                            /\ fresult.runs[k].uploaded[i].chapter
                                  = file.chapter
                            /\ fresult.runs[k].uploaded[i].section
                                  = section.section_id
                      /\ \E p \in fresult.runs[k].after :
                            /\ p.chapter = file.chapter
                            /\ p.section = section.section_id

(***************************************************************************)
(* Properties of the chunking of a selected text                           *)
(***************************************************************************)
\* C24: the passages of the ephemeral index built from a raw text are the
\* passage texts chunk_section returns for a section with this content
\* (max_tokens 512, min_tokens 50), undersized chunks merged as there.
C24_EphemeralPassagesAreChunkerPassages ==
    (fargs.fn = "chunk_selected_text" /\ fpc = "returned") =>
        fresult.ephemeral = fresult.chunker

(***************************************************************************)
(* Properties of chunk_textbook_chapter on the three-heading document      *)
(***************************************************************************)
ChapterReturned == fargs.fn = "chunk_textbook_chapter" /\ fpc = "returned"

\* the passages tagged with section "3.2"
PassagesOf32 == {i \in DOMAIN fresult : fresult[i].section = "3.2"}

\* the passages made from the text under the last heading
PassagesOfBody ==
    {i \in DOMAIN fresult :
        \A p \in DOMAIN lines : lines[p].kind = "header" => p <= fresult[i].line}

HitOfChunk(h, e, query_embedding) ==
    /\ h.chunk_id = e.chunk_id
    /\ h.text = e.text
    /\ h.score = Dot(query_embedding, e.embedding)

\* C26: under every interleaving of selected-text requests, the request
\* that waits for the LLM holds the ephemeral index it built itself and
\* hits that are chunks of this index; a step of another request changes
\* neither; and a step of a selected-text request writes nothing to the
\* process-wide state (settings, persistent collection, its operations).
C26_EphemeralIndexIsPerRequest ==
    /\ [](\A q \in Requests :
             (mode[q] = "selected-text" /\ rpc[q] = "awaiting_llm") =>
                 /\ store[q] = built[q]
                 /\ context[q] # <<>>
                 /\ \A i \in DOMAIN context[q] :
                       \E j \in DOMAIN built[q] :
                           HitOfChunk(context[q][i], built[q][j], qvec[q]))
    /\ [][\A q \in Requests :
             (rpc'[q] = rpc[q]) =>
                 /\ store'[q] = store[q]
                 /\ built'[q] = built[q]
                 /\ context'[q] = context[q]
                 /\ qvec'[q] = qvec[q]]_vars
    /\ [][\A q \in Requests :
             (rpc'[q] # rpc[q] /\ mode'[q] = "selected-text") =>
                 /\ settings' = settings
                 /\ collection' = collection
                 /\ uuid_next' = uuid_next
                 /\ ingests' = ingests]_vars

\* two selected-text requests over different ephemeral indexes wait for
\* the LLM at the same time, each with hits
C26_Witness ==
    \E q, r \in Requests :
        /\ q # r
        /\ mode[q] = "selected-text" /\ mode[r] = "selected-text"
        /\ rpc[q] = "awaiting_llm" /\ rpc[r] = "awaiting_llm"
        /\ built[q] # built[r]
        /\ store[q] = built[q] /\ store[r] = built[r]
        /\ Len(context[q]) >= 2

(***************************************************************************)
(* Properties of the process-wide state under request handling             *)
(***************************************************************************)
\* C27: request handling only reads the module-level structures of the
\* embedding service: no call of embed_text or embed_texts made by a
\* handler changes _embedding_cache.
C27_HandlersOnlyReadModuleState ==
    [][fargs.fn = "embed_text" => fresult'.cache = fresult.cache]_vars

(***************************************************************************)
(* Properties of the merge pass of chunk_section                           *)
(***************************************************************************)
\* the merge pass handles chunk_texts[mi + 1] in this step
MergePassStep == cpc = "merge" /\ mi < Len(chunk_texts) /\ mi' = mi + 1

\* the chunk handled in this step was merged into the last passage
MergedIntoPredecessor ==
    /\ chunks # <<>>
    /\ Len(chunks') = Len(chunks)
    /\ chunks' = [chunks EXCEPT
                     ![Len(chunks)].text = @ \o chunk_texts[mi + 1],
                     ![Len(chunks)].token_count =
                         count_tokens(chunks[Len(chunks)].text
                                          \o chunk_texts[mi + 1], tok)]

\* the chunk handled in this step became a passage of its own
KeptAsPassage ==
    /\ Len(chunks') = Len(chunks) + 1
    /\ SubSeq(chunks', 1, Len(chunks)) = chunks
    /\ chunks'[Len(chunks')].text = chunk_texts[mi + 1]
    /\ chunks'[Len(chunks')].token_count =
           count_tokens(chunk_texts[mi + 1], tok)

\* C28: in the merge pass a chunk at index > 0 below MIN_CHUNK_TOKENS is
\* merged into the passage just before it exactly when the merged token
\* count is at most MAX_CHUNK_TOKENS, every other chunk (the one at index 0
\* included) becomes a passage of its own, and an undersized passage that
\* remains behind the first one is one whose merge would exceed
\* MAX_CHUNK_TOKENS.
C28_MergeIffFitsAndNeverIndexZero ==
    /\ [][MergePassStep =>
             LET c == chunk_texts[mi + 1]
             IN  IF mi > 0 /\ count_tokens(c, tok) < MIN_CHUNK_TOKENS
                 THEN /\ MergedIntoPredecessor <=>
                             count_tokens(chunks[Len(chunks)].text \o c, tok)
                                 <= MAX_CHUNK_TOKENS
                      /\ MergedIntoPredecessor \/ KeptAsPassage
                 ELSE KeptAsPassage /\ ~MergedIntoPredecessor]_vars
    /\ [](cpc = "merge" =>
             \A k \in 2..Len(chunks) :
                 chunks[k].token_count < MIN_CHUNK_TOKENS =>
                     chunks[k - 1].token_count + chunks[k].token_count
                         > MAX_CHUNK_TOKENS)
    /\ [](cpc \in {"merge", "done"} /\ chunks # <<>> /\ chunk_texts # <<>> =>
             /\ chunks[1].chunk_index = 0
             /\ SubSeq(chunks[1].text, 1, Len(chunk_texts[1]))
                    = chunk_texts[1])

\* a section where one undersized chunk was merged into its predecessor and
\* another one, whose merge would pass the ceiling, was kept
C28_Witness ==
    /\ cpc = "done"
    /\ Len(chunks) < Len(chunk_texts)
    /\ \E k \in 2..Len(chunks) :
          /\ chunks[k].token_count < MIN_CHUNK_TOKENS
          /\ chunks[k - 1].token_count + chunks[k].token_count
                 > MAX_CHUNK_TOKENS
    /\ chunks[1].token_count > count_tokens(chunk_texts[1], tok)

(***************************************************************************)
(* The ephemeral search against the specified order of its steps           *)
(***************************************************************************)
\* the chunks of the store with their scores, by descending score
SortedScores ==
    SortDesc([i \in 1..Len(fargs.chunks) |->
                 [key  |-> Dot(fargs.query_embedding,
                               fargs.chunks[i].embedding),
                  item |-> fargs.chunks[i]]])

AboveThreshold(scored) ==
    SelectSeq(scored, LAMBDA p : p.key >= fargs.score_threshold)

HitsOf(scored) ==
    [i \in 1..Len(scored) |->
        [chunk_id    |-> scored[i].item.chunk_id,
         score       |-> scored[i].key,
         text        |-> scored[i].item.text,
         chunk_index |-> scored[i].item.chunk_index]]

SliceReturned == fpc = "returned" /\ fargs.fn = "EphemeralVectorStore.search"

\* C29 as stated: for every score assignment, top_k and score_threshold the
\* result of the ephemeral search (sort, slice [:top_k], threshold) is the
\* specified one (sort, threshold, then [:top_k]).
C29_SliceThenFilterIsFilterThenSlice ==
    SliceReturned =>
        fresult = HitsOf(Slice(AboveThreshold(SortedScores), fargs.top_k))

\* C29 amended: the two orders agree for every top_k >= 0; for a negative
\* top_k the search returns the hits above the threshold among all but the
\* last -top_k passages of the sorted list.
C29_OrdersAgreeForNonNegativeTopK ==
    SliceReturned =>
        IF fargs.top_k >= 0
        THEN fresult =
                 HitsOf(Slice(AboveThreshold(SortedScores), fargs.top_k))
        ELSE fresult =
                 HitsOf(AboveThreshold(
                            SubSeq(SortedScores, 1,
                                   Len(SortedScores) + fargs.top_k)))

\* a search where the slice cuts off a passage above the threshold and the
\* threshold drops another passage
C29_Witness ==
    /\ SliceReturned
    /\ fargs.top_k = 1
    /\ Len(fresult) = 1
    /\ Len(AboveThreshold(SortedScores)) = 2
    /\ Len(fargs.chunks) = 3
    /\ fresult[1].score >= fargs.score_threshold

(***************************************************************************)
(* Properties of upsert_chunks                                             *)
(***************************************************************************)
UpsertReturned == fpc = "returned" /\ fargs.fn = "upsert_chunks"

\* some chunk of the call lacks a required field
SomeChunkInvalid ==
    \E i \in DOMAIN fargs.chunks :
        fargs.chunks[i].missing \cap required_fields # {}

\* the points of the chunks of the call, in input order
PointsOfCall == [i \in DOMAIN fargs.chunks |-> PointStruct(fargs.chunks[i])]

\* C30: upsert_chunks validates every chunk before the first write: when a
\* chunk lacks a required field the call raises, no batch is sent and the
\* collection is unchanged; when every chunk is valid and the store accepts
\* the writes, the batches sent hold every chunk once, in input order, each
\* batch with at most batch_size points; when the store refuses a batch,
\* the batches sent before it are the chunks before it, in input order.
C30_ValidatesBeforeFirstWrite ==
    UpsertReturned =>
        /\ SomeChunkInvalid =>
               /\ fresult.raised
               /\ fresult.batches = <<>>
               /\ fresult.points = fargs.stored
        /\ ~SomeChunkInvalid =>
               /\ \A b \in DOMAIN fresult.batches :
                     /\ Len(fresult.batches[b]) >= 1
                     /\ Len(fresult.batches[b]) <= fargs.batch_size
               /\ Join(fresult.batches)
                      = SubSeq(PointsOfCall, 1, Len(Join(fresult.batches)))
               /\ ~fresult.raised => Join(fresult.batches) = PointsOfCall
               /\ \A b \in DOMAIN fresult.batches :
                     \A i \in DOMAIN fresult.batches[b] :
                         \E p \in fresult.points :
                             p.id = fresult.batches[b][i].id

\* a call of three chunks in batches of one whose last chunk lacks a
\* required field: it raised although the first two batches were valid
C30_Witness ==
    /\ UpsertReturned
    /\ Len(fargs.chunks) = 3
    /\ fargs.batch_size = 1
    /\ fargs.fail = 0
    /\ fargs.chunks[1].missing \cap required_fields = {}
    /\ fargs.chunks[2].missing \cap required_fields = {}
    /\ fargs.chunks[3].missing \cap required_fields # {}
    /\ fresult.raised
    /\ fresult.batches = <<>>

====
